---- MODULE Spec2Model ----
(***************************************************************************)
(* AOIA autonomous pipeline: the orchestrator's autonomy-mode state        *)
(* machine, the Detector's rule catalogue, the Loss Estimator and the      *)
(* staged execution of the optimization plan.                              *)
(*                                                                         *)
(* Numbers the Python code holds as floats are held here as exact          *)
(* fractions [n, d] with d > 0, compared by cross-multiplication.          *)
(* Python dict values are tagged: Absent (key missing), Null (None), BadStr*)
(* (a non-numeric string) or Num(x).                                       *)
(***************************************************************************)
EXTENDS Integers, Sequences, FiniteSets, TLC

VARIABLES
    mode,       \* AOIAOrchestrator._mode, the sticky autonomy mode
    industry,   \* AOIAOrchestrator._industry
    baselines,  \* DetectionAgent.baselines["throughput"] (Absent when not set)
    learned,    \* len(AOIAOrchestrator._learning_history)
    knowledge_graph,    \* KnowledgeGraphAgent.nodes, .edges and .type_index
    historical_losses,  \* LossEstimationAgent.historical_losses
    issued_actions,     \* the ExecutionAction objects returned to callers so far
    agents,     \* BaseAgent._status and .metrics of the Detector, the Knowledge
                \* Graph agent and the Loss Estimator, followed for the calls
                \* of SpecAgents and SpecConcurrent
    in_flight,  \* the run_pipeline calls of concurrent callers: each one's
                \* position and locals, and AOIAOrchestrator._pipeline_id
    call,       \* the operation last invoked, with its arguments
    result      \* what that operation returned, or that it raised

vars ==
    <<mode, industry, baselines, learned, knowledge_graph, historical_losses,
      issued_actions, agents, in_flight,
      call, result>>

----------------------------------------------------------------------------
(* Python values *)

Absent == [k |-> "absent", v |-> 0]
Null == [k |-> "none", v |-> 0]
BadStr == [k |-> "str", v |-> 0]
Num(x) == [k |-> "num", v |-> x]

AbsentS == "<absent>"
NoneS == "<none>"

\* dict.get(key, default) on a numeric field
Get(field, default) == IF field.k = "absent" THEN default ELSE field

\* dict.get(key, default) on a string field
GetS(field, default) == IF field = AbsentS THEN default ELSE field

\* bool(x) of a numeric field value
Truthy(x) == (x.k = "num" /\ x.v # 0) \/ x.k = "str"

\* bool(x) of a string field value
TruthyS(s) == s \notin {AbsentS, NoneS, ""}

\* x or y
Or(x, y) == IF Truthy(x) THEN x ELSE y

OrS(x, y) == IF TruthyS(x) THEN x ELSE y

IsNum(x) == x.k = "num"

----------------------------------------------------------------------------
(* Exact fractions standing for Python floats *)

RECURSIVE GCD(_, _)
GCD(a, b) == IF b = 0 THEN a ELSE GCD(b, a % b)

\* the fraction n / d in lowest terms with a positive denominator; a zero
\* denominator is kept for a quotient the code never computes
F(n, d) ==
    LET g == GCD(IF n < 0 THEN 0 - n ELSE n, IF d < 0 THEN 0 - d ELSE d)
    IN  IF d = 0 \/ g = 0 THEN [n |-> n, d |-> d]
        ELSE IF d < 0 THEN [n |-> (0 - n) \div g, d |-> (0 - d) \div g]
        ELSE [n |-> n \div g, d |-> d \div g]

Zero == F(0, 1)
One == F(1, 1)

FLt(a, b) == a.n * b.d < b.n * a.d
FLe(a, b) == a.n * b.d <= b.n * a.d

\* Python min(a, b) and max(a, b): the first argument unless the second is
\* strictly smaller (larger)
FMin(a, b) == IF FLt(b, a) THEN b ELSE a
FMax(a, b) == IF FLt(a, b) THEN b ELSE a

Abs(x) == IF x < 0 THEN 0 - x ELSE x


----------------------------------------------------------------------------
(* Autonomy modes *)


\* str.upper() on the characters the model's strings are drawn from
UpperChar(c) ==
    CASE c = "a" -> "A" [] c = "s" -> "S" [] c = "i" -> "I" [] c = "t" -> "T"
      [] c = "c" -> "C" [] c = "o" -> "O" [] c = "p" -> "P" [] c = "l" -> "L"
      [] c = "f" -> "F" [] c = "u" -> "U" [] c = "x" -> "X"
      [] OTHER -> c

Upper(s) == [i \in 1..Len(s) |-> UpperChar(s[i])]

IsSpace(c) == c \in {" ", "\t", "\n"}

RECURSIVE LStrip(_)
LStrip(s) == IF s # <<>> /\ IsSpace(Head(s)) THEN LStrip(Tail(s)) ELSE s

RECURSIVE RStrip(_)
RStrip(s) ==
    IF s # <<>> /\ IsSpace(s[Len(s)]) THEN RStrip(SubSeq(s, 1, Len(s) - 1)) ELSE s

Strip(s) == RStrip(LStrip(s))

ASSIST_S == <<"A", "S", "S", "I", "S", "T">>
COPILOT_S == <<"C", "O", "P", "I", "L", "O", "T">>
FULL_AUTO_S == <<"F", "U", "L", "L", "_", "A", "U", "T", "O">>

\* AutonomyMode.value as the character string run_pipeline reads back
ModeValue(m) ==
    CASE m = "ASSIST" -> ASSIST_S [] m = "COPILOT" -> COPILOT_S [] OTHER -> FULL_AUTO_S

\* from_string without strip()
from_string_unstripped(mode_str) ==
    LET s == Upper(mode_str)
    IN  IF s = ASSIST_S THEN "ASSIST" ELSE IF s = COPILOT_S THEN "COPILOT" ELSE "FULL_AUTO"

\* AutonomyMode.from_string
from_string(mode_str) ==
    LET s == Strip(Upper(mode_str))
    IN  IF s = ASSIST_S THEN "ASSIST"
        ELSE IF s = COPILOT_S THEN "COPILOT"
        ELSE IF s = FULL_AUTO_S THEN "FULL_AUTO"
        ELSE "FULL_AUTO"

\* a mode table in which every mode may execute
can_execute_always(m) == TRUE

\* a mode table in which no mode asks for approval
requires_approval_never(m) == FALSE

\* a mode table in which every mode asks for approval
requires_approval_always(m) == TRUE

\* ModeConfig.CONFIGS
can_execute(m) == m \in {"COPILOT", "FULL_AUTO"}
requires_approval(m) == m = "COPILOT"

----------------------------------------------------------------------------
(* Snapshot records *)

Entity(id, type, state, load, queue, idle, thr) ==
    [entity_id |-> id, entity_type |-> type, state |-> state,
     load_percent |-> load, queue_size |-> queue, idle_time_minutes |-> idle,
     throughput |-> thr,
     machine_id |-> AbsentS, operator_id |-> AbsentS, machine_state |-> AbsentS,
     operator_load |-> Absent, output_per_min |-> Absent, idle_time |-> Absent]

WorkItem(id, type, status, hand, rew, bnc, esc, wait, slaR, slaT) ==
    [item_id |-> id, item_type |-> type, status |-> status,
     handover_count |-> hand, rework_count |-> rew, bounce_count |-> bnc,
     escalation_count |-> esc, wait_time_minutes |-> wait,
     sla_remaining_minutes |-> slaR, sla_target_minutes |-> slaT,
     task_id |-> AbsentS, task_transfers |-> Absent, rework_loops |-> Absent]

Process(id, bottleneck) == [process_id |-> id, bottleneck_stage |-> bottleneck]

\* a list-valued key of the snapshot: missing, None or a list
AbsentL == [k |-> "absent", l |-> <<>>]
NullL == [k |-> "none", l |-> <<>>]
L(seq) == [k |-> "list", l |-> seq]

\* the autonomy_mode key: missing, None or a string of characters
AbsentM == [k |-> "absent", s |-> <<>>]
NullM == [k |-> "none", s |-> <<>>]
StrM(chars) == [k |-> "str", s |-> chars]

\* the business mapping
Business(ind, cpm, cph, bt, bopm) ==
    [industry |-> ind, cost_per_min |-> cpm, cost_per_hour |-> cph,
     baseline_throughput |-> bt, baseline_output_per_min |-> bopm]

EmptyBusiness == Business(AbsentS, Absent, Absent, Absent, Absent)

\* the business key: missing, None or a mapping
AbsentB == [k |-> "absent", d |-> EmptyBusiness]
NullB == [k |-> "none", d |-> EmptyBusiness]
DictB(b) == [k |-> "dict", d |-> b]

Snapshot(m, b, dry, ents, items, procs, machines, shifts, workflows) ==
    [autonomy_mode |-> m, business |-> b, dry_run |-> dry,
     entities |-> ents, work_items |-> items, processes |-> procs,
     machines |-> machines, shifts |-> shifts, workflows |-> workflows]

----------------------------------------------------------------------------
(* Detector: DetectionAgent *)

\* DetectionAgent.thresholds
overload_percent == 90
underutilization_percent == 40
load_imbalance_variance == 20
idle_time_minutes == 15
wait_time_minutes == 30
handover_count == 3
rework_count == 2
bounce_count == 2
escalation_count == 2
queue_size == 10
sla_remaining_percent == 20
throughput_drop_percent == 20

\* the cutoffs with the boundary values counted to the lower level
SeverityLevel_inclusive(severity) ==
    IF FLe(severity, F(3, 10)) THEN "low"
    ELSE IF FLe(severity, F(6, 10)) THEN "medium"
    ELSE IF FLe(severity, F(85, 100)) THEN "high"
    ELSE "critical"

\* the cutoffs of _create_detection
SeverityLevel(severity) ==
    IF FLt(severity, F(3, 10)) THEN "low"
    ELSE IF FLt(severity, F(6, 10)) THEN "medium"
    ELSE IF FLt(severity, F(85, 100)) THEN "high"
    ELSE "critical"

\* DetectionAgent._create_detection; the record holds the keys of
\* InefficiencyDetection.model_dump() the pipeline reads
_create_detection(inefficiency_type, location_id, location_type, severity, deviation) ==
    LET clamped == FMin(FMax(severity, Zero), One)
    IN  [inefficiency_type |-> inefficiency_type,
         location_id |-> location_id,
         location_type |-> location_type,
         severity_score |-> clamped,
         severity_level |-> SeverityLevel(clamped),
         deviation_percent |-> deviation]

\* the values _detect_entity_issues reads from an entity
EntityId(e) == OrS(e.entity_id, OrS(e.machine_id, OrS(e.operator_id, "unknown")))
EntityLoad(e) == Or(Get(e.load_percent, Null), Get(e.operator_load, Num(0)))
EntityState(e) == OrS(e.state, GetS(e.machine_state, "active"))
EntityThroughput(e) == Or(Get(e.throughput, Null), Get(e.output_per_min, Num(0)))

\* a comparison of a non-number raises TypeError inside the rule
EntityRaises(e, baseline) ==
    \/ ~IsNum(Get(e.idle_time_minutes, Num(0)))
    \/ ~IsNum(EntityLoad(e))
    \/ ~IsNum(Get(e.queue_size, Num(0)))
    \/ (Truthy(EntityThroughput(e)) /\ Truthy(baseline)
            /\ ~(IsNum(EntityThroughput(e)) /\ IsNum(baseline)))

IdleTimeRule(e) ==
    LET idle == Get(e.idle_time_minutes, Num(0)).v
    IN  IF idle >= idle_time_minutes
        THEN <<_create_detection("IDLE_TIME", EntityId(e), GetS(e.entity_type, "entity"),
                                 FMin(F(idle, 60), One), F(idle, 1))>>
        ELSE <<>>

StateRule(e) ==
    LET state == EntityState(e)
        severity == CASE state = "idle" -> F(4, 10) [] state = "blocked" -> F(7, 10)
                      [] state = "offline" -> F(8, 10) [] state = "down" -> F(9, 10)
                      [] OTHER -> F(5, 10)
        type == IF state = "blocked" THEN "BLOCKED"
                ELSE IF state \in {"offline", "down"} THEN "OFFLINE" ELSE "IDLE_TIME"
    IN  IF state \in {"idle", "blocked", "offline", "down"}
        THEN <<_create_detection(type, EntityId(e), GetS(e.entity_type, "entity"),
                                 severity, F(100, 1))>>
        ELSE <<>>

\* the load rule with > in place of >= at the overload threshold
LoadRule_strict(e) ==
    LET load == EntityLoad(e).v
    IN  IF load > overload_percent
        THEN <<_create_detection("OVERLOAD", EntityId(e), GetS(e.entity_type, "entity"),
                                 FMin(F(load - 80, 20), One), F(load - 80, 1))>>
        ELSE IF load > 0 /\ load < underutilization_percent
        THEN <<_create_detection("UNDERUTILIZATION", EntityId(e),
                                 GetS(e.entity_type, "entity"),
                                 FMin(F(underutilization_percent - load, 40), F(7, 10)),
                                 F(underutilization_percent - load, 1))>>
        ELSE <<>>

\* the load rule of _detect_entity_issues: overload, elif underutilization
LoadRule(e) ==
    LET load == EntityLoad(e).v
    IN  IF load >= overload_percent
        THEN <<_create_detection("OVERLOAD", EntityId(e), GetS(e.entity_type, "entity"),
                                 FMin(F(load - 80, 20), One), F(load - 80, 1))>>
        ELSE IF load > 0 /\ load < underutilization_percent
        THEN <<_create_detection("UNDERUTILIZATION", EntityId(e),
                                 GetS(e.entity_type, "entity"),
                                 FMin(F(underutilization_percent - load, 40), F(7, 10)),
                                 F(underutilization_percent - load, 1))>>
        ELSE <<>>

QueueRule(e) ==
    LET q == Get(e.queue_size, Num(0)).v
    IN  IF q >= queue_size
        THEN <<_create_detection("QUEUE_OVERFLOW", EntityId(e),
                                 GetS(e.entity_type, "entity"),
                                 FMin(F(q, 20), One), F(q - queue_size, 1))>>
        ELSE <<>>

ThroughputRule(e, baseline) ==
    LET t == EntityThroughput(e).v
        b == baseline.v
        deviation == F((b - t) * 100, b)
    IN  IF Truthy(EntityThroughput(e)) /\ Truthy(baseline)
            /\ t * 100 < b * (100 - throughput_drop_percent)
        THEN <<_create_detection("LOW_THROUGHPUT", EntityId(e),
                                 GetS(e.entity_type, "entity"),
                                 FMin(F(deviation.n, deviation.d * 50), One), deviation)>>
        ELSE <<>>

\* DetectionAgent._detect_entity_issues
_detect_entity_issues(e, baseline) ==
    IdleTimeRule(e) \o StateRule(e) \o LoadRule(e) \o QueueRule(e)
        \o ThroughputRule(e, baseline)

\* the values _detect_work_item_issues reads from a work item
ItemId(w) == OrS(w.item_id, OrS(w.task_id, "unknown"))
ItemHandovers(w) == Or(Get(w.handover_count, Null), Get(w.task_transfers, Num(0)))
ItemRework(w) == Or(Get(w.rework_count, Null), Get(w.rework_loops, Num(0)))

ItemRaises(w) ==
    \/ ~IsNum(ItemHandovers(w))
    \/ ~IsNum(ItemRework(w))
    \/ ~IsNum(Get(w.bounce_count, Num(0)))
    \/ ~IsNum(Get(w.escalation_count, Num(0)))
    \/ ~IsNum(Get(w.wait_time_minutes, Num(0)))
    \/ (Get(w.sla_remaining_minutes, Null).k # "none" /\ Truthy(w.sla_target_minutes)
            /\ ~(IsNum(w.sla_remaining_minutes) /\ IsNum(w.sla_target_minutes)))

\* one counter rule of _detect_work_item_issues: fires at value >= threshold
CountRule(w, type, value, threshold, divisor, factor) ==
    IF value >= threshold
    THEN <<_create_detection(type, ItemId(w), GetS(w.item_type, "work_item"),
                             FMin(F(value, divisor), One), F(value * factor, 1))>>
    ELSE <<>>

\* percent remaining of the SLA: (sla_remaining / sla_target) * 100
PctRemaining(w) == F(w.sla_remaining_minutes.v * 100, w.sla_target_minutes.v)

\* the SLA rule with < in place of <= at the breach test
SlaRule_strict(w) ==
    LET pct == PctRemaining(w)
        thr == F(sla_remaining_percent, 1)
        severity == F(sla_remaining_percent * pct.d - pct.n, sla_remaining_percent * pct.d)
    IN  IF Get(w.sla_remaining_minutes, Null).k # "none" /\ Truthy(w.sla_target_minutes)
        THEN IF FLt(pct, Zero)
             THEN <<_create_detection("SLA_BREACH", ItemId(w),
                                      GetS(w.item_type, "work_item"), One,
                                      F(Abs(w.sla_remaining_minutes.v), 1))>>
             ELSE IF FLe(pct, thr)
             THEN <<_create_detection("SLA_RISK", ItemId(w),
                                      GetS(w.item_type, "work_item"),
                                      FMin(F(2 * severity.n + severity.d, 2 * severity.d), One),
                                      F(sla_remaining_percent * pct.d - pct.n, pct.d))>>
             ELSE <<>>
        ELSE <<>>

\* the SLA rule of _detect_work_item_issues: breach, elif risk
SlaRule(w) ==
    LET pct == PctRemaining(w)
        thr == F(sla_remaining_percent, 1)
        \* (threshold - pct) / threshold
        severity == F(sla_remaining_percent * pct.d - pct.n, sla_remaining_percent * pct.d)
    IN  IF Get(w.sla_remaining_minutes, Null).k # "none" /\ Truthy(w.sla_target_minutes)
        THEN IF FLe(pct, Zero)
             THEN <<_create_detection("SLA_BREACH", ItemId(w),
                                      GetS(w.item_type, "work_item"), One,
                                      F(Abs(w.sla_remaining_minutes.v), 1))>>
             ELSE IF FLe(pct, thr)
             THEN <<_create_detection("SLA_RISK", ItemId(w),
                                      GetS(w.item_type, "work_item"),
                                      \* min(severity + 0.5, 1.0)
                                      FMin(F(2 * severity.n + severity.d, 2 * severity.d), One),
                                      F(sla_remaining_percent * pct.d - pct.n, pct.d))>>
             ELSE <<>>
        ELSE <<>>

BlockedRule(w) ==
    IF GetS(w.status, "") \in {"blocked", "stuck", "on_hold"}
    THEN <<_create_detection("BLOCKED", ItemId(w), GetS(w.item_type, "work_item"),
                             F(7, 10), F(100, 1))>>
    ELSE <<>>

\* DetectionAgent._detect_work_item_issues
_detect_work_item_issues(w) ==
    CountRule(w, "EXCESSIVE_HANDOVERS", ItemHandovers(w).v, handover_count, 8, 15)
        \o CountRule(w, "REWORK", ItemRework(w).v, rework_count, 5, 25)
        \o CountRule(w, "BOUNCE", Get(w.bounce_count, Num(0)).v, bounce_count, 5, 20)
        \o CountRule(w, "ESCALATION", Get(w.escalation_count, Num(0)).v,
                     escalation_count, 4, 20)
        \o (LET wait == Get(w.wait_time_minutes, Num(0)).v
            IN  IF wait >= wait_time_minutes
                THEN <<_create_detection("WAIT_TIME", ItemId(w),
                                         GetS(w.item_type, "work_item"),
                                         FMin(F(wait, 120), One), F(wait, 1))>>
                ELSE <<>>)
        \o SlaRule(w)
        \o BlockedRule(w)

\* DetectionAgent._detect_process_issues
_detect_process_issues(p) ==
    IF TruthyS(p.bottleneck_stage)
    THEN <<_create_detection("BOTTLENECK", GetS(p.process_id, "unknown"), "process",
                             F(7, 10), F(30, 1))>>
    ELSE <<>>

\* the loads _detect_patterns collects: those of entities reporting a load
RECURSIVE ReportedLoads(_)
ReportedLoads(entities) ==
    IF entities = <<>> THEN <<>>
    ELSE LET e == Head(entities)
             reports == Truthy(Get(e.load_percent, Null)) \/ Truthy(Get(e.operator_load, Null))
             load == Or(Get(e.load_percent, Null), Get(e.operator_load, Num(50)))
         IN  (IF reports THEN <<load.v>> ELSE <<>>) \o ReportedLoads(Tail(entities))

SeqMax(s) == CHOOSE x \in {s[i] : i \in 1..Len(s)} : \A j \in 1..Len(s) : s[j] <= x
SeqMin(s) == CHOOSE x \in {s[i] : i \in 1..Len(s)} : \A j \in 1..Len(s) : s[j] >= x

\* DetectionAgent._detect_patterns
_detect_patterns(entities) ==
    LET loads == ReportedLoads(entities)
    IN  IF Len(loads) >= 2
        THEN LET variance == SeqMax(loads) - SeqMin(loads)
             IN  IF variance >= load_imbalance_variance
                 THEN <<_create_detection("LOAD_IMBALANCE", "all_entities", "system",
                                          FMin(F(variance, 50), One), F(variance, 1))>>
                 ELSE <<>>
        ELSE <<>>

\* concatenation of f over the elements of a sequence, in order
RECURSIVE FlatMap3(_, _, _)
FlatMap3(kind, s, baseline) ==
    IF s = <<>> THEN <<>>
    ELSE (CASE kind = "entity" -> _detect_entity_issues(Head(s), baseline)
            [] kind = "item" -> _detect_work_item_issues(Head(s))
            [] OTHER -> _detect_process_issues(Head(s)))
         \o FlatMap3(kind, Tail(s), baseline)

\* DetectionAgent._update_baselines: the throughput baseline after a run whose
\* business context is `business`
_update_baselines(old, business) ==
    LET b1 == IF Truthy(Get(business.baseline_throughput, Null))
              THEN business.baseline_throughput ELSE old
    IN  IF Truthy(Get(business.baseline_output_per_min, Null))
        THEN Num(business.baseline_output_per_min.v * 60) ELSE b1

\* DetectionAgent.process on normalized data: [status, detections, baselines].
\* Normalized data carries no machines, shifts or workflows key, so the
\* legacy fallback for an empty entities or work_items list yields [].
DetectionProcess(data, old) ==
    LET entities == data.entities.l
        work_items == data.work_items.l
        processes == data.processes.l
        base == _update_baselines(old, data.business)
        raises == \/ \E i \in 1..Len(entities) : EntityRaises(entities[i], base)
                  \/ \E i \in 1..Len(work_items) : ItemRaises(work_items[i])
                  \/ data.processes.k = "none"
        detections ==
            FlatMap3("entity", entities, base)
                \o FlatMap3("item", work_items, base)
                \o FlatMap3("process", processes, base)
                \o (IF Len(entities) > 1 THEN _detect_patterns(entities) ELSE <<>>)
    IN  IF raises
        THEN [status |-> "error", detections |-> <<>>, baselines |-> base]
        ELSE [status |-> "success", detections |-> detections, baselines |-> base]

----------------------------------------------------------------------------
(* Orchestrator: input normalization *)

MachineToEntity(m) ==
    [m EXCEPT
        !.entity_id = IF @ # AbsentS THEN @ ELSE GetS(m.machine_id, NoneS),
        !.entity_type = IF @ # AbsentS THEN @ ELSE "machine",
        !.state = IF @ # AbsentS THEN @ ELSE GetS(m.machine_state, "active"),
        !.throughput = IF @.k # "absent" THEN @ ELSE Get(m.output_per_min, Null),
        !.load_percent = IF @.k # "absent" THEN @ ELSE Get(m.operator_load, Null)]

ShiftToEntity(sh) ==
    [sh EXCEPT
        !.entity_id = IF @ # AbsentS THEN @ ELSE GetS(sh.operator_id, NoneS),
        !.entity_type = IF @ # AbsentS THEN @ ELSE "operator",
        !.load_percent = IF @.k # "absent" THEN @ ELSE Get(sh.operator_load, Null),
        !.idle_time_minutes = IF @.k # "absent" THEN @ ELSE Get(sh.idle_time, Num(0))]

WorkflowToItem(w) ==
    [w EXCEPT
        !.item_id = IF @ # AbsentS THEN @ ELSE GetS(w.task_id, NoneS),
        !.item_type = IF @ # AbsentS THEN @ ELSE "task",
        !.rework_count = IF @.k # "absent" THEN @ ELSE Get(w.rework_loops, Num(0)),
        !.handover_count = IF @.k # "absent" THEN @ ELSE Get(w.task_transfers, Num(0))]

\* x * 60 on a dict value: a string repeats, a number multiplies
Times60(x) == IF IsNum(x) THEN Num(x.v * 60) ELSE x

\* the business mapping _normalize_input returns
NormalizeBusiness(b) ==
    LET b0 == IF b = EmptyBusiness
              THEN Business("GENERAL", Absent, Num(75), Absent, Absent) ELSE b
        b1 == IF Truthy(Get(b0.baseline_output_per_min, Null))
              THEN [b0 EXCEPT !.baseline_throughput = Times60(b0.baseline_output_per_min)]
              ELSE b0
    IN  IF Truthy(Get(b1.cost_per_min, Null))
        THEN [b1 EXCEPT !.cost_per_hour = Times60(b1.cost_per_min)]
        ELSE b1

\* iterating None, or appending to None, raises inside _normalize_input
NormalizeRaises(input) ==
    \/ input.machines.k = "none" \/ input.shifts.k = "none" \/ input.workflows.k = "none"
    \/ (input.entities.k = "none" /\ (input.machines.l # <<>> \/ input.shifts.l # <<>>))
    \/ (input.work_items.k = "none" /\ input.workflows.l # <<>>)

\* dict.get(key, []) on a list-valued key
GetL(field) == IF field.k = "absent" THEN L(<<>>) ELSE field

\* AOIAOrchestrator._normalize_input
_normalize_input(input) ==
    LET machines == [i \in 1..Len(input.machines.l) |-> MachineToEntity(input.machines.l[i])]
        shifts == [i \in 1..Len(input.shifts.l) |-> ShiftToEntity(input.shifts.l[i])]
        workflows == [i \in 1..Len(input.workflows.l) |-> WorkflowToItem(input.workflows.l[i])]
        entities == GetL(input.entities)
        work_items == GetL(input.work_items)
    IN  [entities |-> [entities EXCEPT !.l = @ \o machines \o shifts],
         work_items |-> [work_items EXCEPT !.l = @ \o workflows],
         processes |-> GetL(input.processes),
         business |-> NormalizeBusiness(input.business.d)]

----------------------------------------------------------------------------
(* Knowledge Graph, Loss Estimator *)

\* the elements of a list
Range(seq) == {seq[i] : i \in 1..Len(seq)}

\* dict.get(key, default) on a record standing for a dict
DictGet(d, key, default) == IF key \in DOMAIN d THEN d[key] ELSE default

\* a Python dict with computed keys: a function on the set of its keys
EmptyDict == [k \in {} |-> 0]

\* dict.get(key, []) for a list-valued key of a record standing for a dict
ListGet(d, key) == IF key \in DOMAIN d THEN d[key] ELSE <<>>

\* the Knowledge Graph agent's store: nodes maps a node id to its type and
\* metadata, edges maps a pair (from_id, to_id) to the edge type, edge_keys
\* lists the keys of edges in the order the dict holds them (the order of
\* their first insertion), type_index maps a node type to the ids added
\* under it
EmptyGraph ==
    [nodes |-> EmptyDict, edges |-> EmptyDict, edge_keys |-> <<>>,
     type_index |-> [t \in {"machine", "operator", "task", "workflow", "process"} |-> {}]]

\* KnowledgeGraphAgent._add_node
_add_node(graph, node_id, node_type, metadata) ==
    [graph EXCEPT
        !.nodes = [k \in DOMAIN @ \cup {node_id} |->
                      IF k = node_id THEN [type |-> node_type, metadata |-> metadata]
                      ELSE @[k]],
        !.type_index[node_type] = @ \cup {node_id}]

\* KnowledgeGraphAgent._add_edge
_add_edge(graph, from_id, to_id, edge_type) ==
    [graph EXCEPT
        !.edges = [k \in DOMAIN @ \cup {<<from_id, to_id>>} |->
                      IF k = <<from_id, to_id>> THEN edge_type ELSE @[k]],
        !.edge_keys = IF <<from_id, to_id>> \in DOMAIN graph.edges THEN @
                      ELSE Append(@, <<from_id, to_id>>)]

\* for task_id in shift.get("task_assignments", []): add an "operates" edge
RECURSIVE AddOperates(_, _, _)
AddOperates(graph, operator_id, tasks) ==
    IF tasks = <<>> THEN graph
    ELSE AddOperates(_add_edge(graph, operator_id, Head(tasks), "operates"),
                     operator_id, Tail(tasks))

\* for i in range(len(sequence) - 1): add a "precedes" edge
RECURSIVE AddPrecedes(_, _)
AddPrecedes(graph, sequence) ==
    IF Len(sequence) < 2 THEN graph
    ELSE AddPrecedes(_add_edge(graph, sequence[1], sequence[2], "precedes"),
                     Tail(sequence))

\* the three loops of _build_graph_from_data
RECURSIVE AddMachines(_, _)
AddMachines(graph, machines) ==
    IF machines = <<>> THEN graph
    ELSE LET machine == Head(machines)
             machine_id == DictGet(machine, "machine_id", NoneS)
         IN  AddMachines(IF TruthyS(machine_id)
                         THEN _add_node(graph, machine_id, "machine",
                                        DictGet(machine, "machine_state", NoneS))
                         ELSE graph,
                         Tail(machines))

RECURSIVE AddShifts(_, _)
AddShifts(graph, shifts) ==
    IF shifts = <<>> THEN graph
    ELSE LET shift == Head(shifts)
             operator_id == DictGet(shift, "operator_id", NoneS)
         IN  AddShifts(IF TruthyS(operator_id)
                       THEN AddOperates(_add_node(graph, operator_id, "operator",
                                                  DictGet(shift, "operator_load", NoneS)),
                                        operator_id, ListGet(shift, "task_assignments"))
                       ELSE graph,
                       Tail(shifts))

RECURSIVE AddWorkflows(_, _)
AddWorkflows(graph, workflows) ==
    IF workflows = <<>> THEN graph
    ELSE LET workflow == Head(workflows)
             task_id == DictGet(workflow, "task_id", NoneS)
         IN  AddWorkflows(IF TruthyS(task_id)
                          THEN AddPrecedes(_add_node(graph, task_id, "task",
                                                     DictGet(workflow, "status", NoneS)),
                                           ListGet(workflow, "process_sequence"))
                          ELSE graph,
                          Tail(workflows))

\* [r.get(key) for r in records if r.get(key)]
RECURSIVE IdsOf(_, _)
IdsOf(records, key) ==
    IF records = <<>> THEN <<>>
    ELSE (IF TruthyS(DictGet(Head(records), key, NoneS))
          THEN <<DictGet(Head(records), key, NoneS)>> ELSE <<>>)
         \o IdsOf(Tail(records), key)

\* the loop of _infer_machine_task_relationships from task number i on
RECURSIVE InferFrom(_, _, _, _)
InferFrom(graph, machine_ids, task_ids, i) ==
    IF i > Len(task_ids) THEN graph
    ELSE InferFrom(_add_edge(graph, machine_ids[((i - 1) % Len(machine_ids)) + 1],
                             task_ids[i], "processes"),
                   machine_ids, task_ids, i + 1)

\* KnowledgeGraphAgent._infer_machine_task_relationships
_infer_machine_task_relationships(graph, machines, workflows) ==
    LET machine_ids == IdsOf(machines, "machine_id")
        task_ids == IdsOf(workflows, "task_id")
    IN  IF machine_ids # <<>> /\ task_ids # <<>>
        THEN InferFrom(graph, machine_ids, task_ids, 1)
        ELSE graph

\* a _build_graph_from_data that starts from an empty store at every call
_build_graph_from_data_rebuilt(graph, input_data) ==
    LET machines == ListGet(input_data, "machines")
        workflows == ListGet(input_data, "workflows")
        shifts == ListGet(input_data, "shifts")
    IN  _infer_machine_task_relationships(
            AddWorkflows(AddShifts(AddMachines(EmptyGraph, machines), shifts), workflows),
            machines, workflows)

\* KnowledgeGraphAgent._build_graph_from_data: reads the keys machines,
\* workflows and shifts of the dict it is given
_build_graph_from_data(graph, input_data) ==
    LET machines == ListGet(input_data, "machines")
        workflows == ListGet(input_data, "workflows")
        shifts == ListGet(input_data, "shifts")
    IN  _infer_machine_task_relationships(
            AddWorkflows(AddShifts(AddMachines(graph, machines), shifts), workflows),
            machines, workflows)

\* a loop over the edges that follows them from from_id to to_id only
RECURSIVE Enqueue_directed(_, _, _, _, _)
Enqueue_directed(queue, keys, node_id, depth, visited_ids) ==
    IF keys = <<>> THEN queue
    ELSE Enqueue_directed(IF Head(keys)[1] = node_id /\ Head(keys)[2] \notin visited_ids
                          THEN Append(queue, <<Head(keys)[2], depth + 1>>)
                          ELSE queue,
                          Tail(keys), node_id, depth, visited_ids)

\* the for loop of _get_connected_nodes over the edges, for the node just
\* visited: the neighbours not yet visited are queued at depth + 1
RECURSIVE Enqueue(_, _, _, _, _)
Enqueue(queue, keys, node_id, depth, visited_ids) ==
    IF keys = <<>> THEN queue
    ELSE LET from_id == Head(keys)[1]
             to_id == Head(keys)[2]
             q == IF from_id = node_id /\ to_id \notin visited_ids
                  THEN Append(queue, <<to_id, depth + 1>>)
                  ELSE IF to_id = node_id /\ from_id \notin visited_ids
                  THEN Append(queue, <<from_id, depth + 1>>)
                  ELSE queue
         IN  Enqueue(q, Tail(keys), node_id, depth, visited_ids)

\* the while loop of _get_connected_nodes; visited lists the pairs
\* <<node, depth>> in the order the dict received them
RECURSIVE BfsLoop(_, _, _, _)
BfsLoop(visited, queue, keys, max_depth) ==
    IF queue = <<>> THEN visited
    ELSE LET node_id == Head(queue)[1]
             depth == Head(queue)[2]
             visited_ids == {visited[i][1] : i \in 1..Len(visited)}
         IN  IF node_id \in visited_ids \/ depth > max_depth
             THEN BfsLoop(visited, Tail(queue), keys, max_depth)
             ELSE BfsLoop(Append(visited, <<node_id, depth>>),
                          Enqueue(Tail(queue), keys, node_id, depth,
                                  visited_ids \cup {node_id}),
                          keys, max_depth)

\* KnowledgeGraphAgent._get_connected_nodes
_get_connected_nodes(graph, start_node, max_depth) ==
    BfsLoop(<<>>, <<<<start_node, 0>>>>, graph.edge_keys, max_depth)

impact_depth == 3

\* the target of the last stored edge that leaves current for a node not yet
\* visited
RECURSIVE FirstTarget_last(_, _, _)
FirstTarget_last(keys, current, visited_ids) ==
    IF keys = <<>> THEN NoneS
    ELSE IF keys[Len(keys)][1] = current /\ keys[Len(keys)][2] \notin visited_ids
    THEN keys[Len(keys)][2]
    ELSE FirstTarget_last(SubSeq(keys, 1, Len(keys) - 1), current, visited_ids)

\* the for loop of _build_dependency_chain: the target of the first stored
\* edge that leaves current for a node not yet visited, None without one
RECURSIVE FirstTarget(_, _, _)
FirstTarget(keys, current, visited_ids) ==
    IF keys = <<>> THEN NoneS
    ELSE IF Head(keys)[1] = current /\ Head(keys)[2] \notin visited_ids
    THEN Head(keys)[2]
    ELSE FirstTarget(Tail(keys), current, visited_ids)

\* the chain is cut when it holds this many entries
chain_limit == 5

\* the while loop of _build_dependency_chain; an entry holds the node id and
\* the type of the stored node, "unknown" for an id that is not stored
RECURSIVE ChainLoop(_, _, _)
ChainLoop(chain, current, graph) ==
    LET visited_ids == {chain[i].node_id : i \in 1..Len(chain)}
    IN  IF ~TruthyS(current) \/ current \in visited_ids THEN chain
        ELSE LET entry == [node_id |-> current,
                           node_type |-> IF current \in DOMAIN graph.nodes
                                         THEN graph.nodes[current].type ELSE "unknown"]
                 next_node == FirstTarget(graph.edge_keys, current,
                                          visited_ids \cup {current})
             IN  IF Len(chain) + 1 >= chain_limit THEN Append(chain, entry)
                 ELSE ChainLoop(Append(chain, entry), next_node, graph)

\* KnowledgeGraphAgent._build_dependency_chain
_build_dependency_chain(graph, start_node) == ChainLoop(<<>>, start_node, graph)

\* the loop of _analyze_impact: a detection without an anomaly_location key
\* is skipped; the others seed a traversal whose nodes are sorted by type
RECURSIVE ImpactLoop(_, _, _)
ImpactLoop(acc, graph, detections) ==
    IF detections = <<>> THEN acc
    ELSE LET location == DictGet(Head(detections), "anomaly_location", NoneS)
             connected == _get_connected_nodes(graph, location, impact_depth)
             ids == {connected[i][1] : i \in 1..Len(connected)}
             OfType(types) == {id \in ids : /\ id \in DOMAIN graph.nodes
                                            /\ graph.nodes[id].type \in types}
         IN  IF ~TruthyS(location) THEN ImpactLoop(acc, graph, Tail(detections))
             ELSE ImpactLoop(
                    [affected_machines |-> acc.affected_machines \cup OfType({"machine"}),
                     affected_operators |-> acc.affected_operators \cup OfType({"operator"}),
                     affected_tasks |-> acc.affected_tasks \cup OfType({"task", "process"}),
                     analysed |-> acc.analysed + 1],
                    graph, Tail(detections))

NoAffected ==
    [affected_machines |-> {}, affected_operators |-> {}, affected_tasks |-> {},
     analysed |-> 0]

\* KnowledgeGraphAgent._analyze_impact
_analyze_impact(graph, detections) == ImpactLoop(NoAffected, graph, detections)

\* a Knowledge Graph agent that reports success whatever happened inside it
KnowledgeGraphProcess_silent(graph, input_data, detections, fault) ==
    [status |-> "success",
     graph |-> IF fault THEN graph ELSE _build_graph_from_data(graph, input_data),
     affected_nodes |->
         IF detections # <<>> /\ ~fault
         THEN _analyze_impact(_build_graph_from_data(graph, input_data), detections)
         ELSE NoAffected]

\* KnowledgeGraphAgent.process(input_data, context = {"detections": ...});
\* fault stands for an exception raised inside it, before the store changed
KnowledgeGraphProcess(graph, input_data, detections, fault) ==
    IF fault
    THEN [status |-> "error", graph |-> graph, affected_nodes |-> NoAffected]
    ELSE [status |-> "success",
          graph |-> _build_graph_from_data(graph, input_data),
          affected_nodes |->
              IF detections # <<>>
              THEN _analyze_impact(_build_graph_from_data(graph, input_data), detections)
              ELSE NoAffected]

\* KnowledgeGraphAgent.clear_graph
clear_graph(graph) == EmptyGraph

\* LossCalculator.industry_multipliers, in tenths
industry_multipliers(ind) ==
    CASE ind = "MANUFACTURING" -> 12 [] ind = "BPO" -> 8 [] ind = "LOGISTICS" -> 11
      [] ind = "RETAIL" -> 9 [] ind = "HEALTHCARE" -> 15 [] ind = "GENERAL" -> 10
      [] OTHER -> 10

\* LossCalculator.anomaly_weights, in tenths
anomaly_weights(t) ==
    CASE t = "IDLE_SPIKE" -> 8 [] t = "THROUGHPUT_DROP" -> 12 [] t = "RESPONSE_DELAY" -> 7
      [] t = "MACHINE_SLOWDOWN" -> 13 [] t = "QUALITY_DECLINE" -> 15 [] t = "OVERLOAD" -> 11
      [] t = "UNDERPERFORMANCE" -> 9 [] t = "PATTERN_BREAK" -> 6 [] t = "DOWNTIME" -> 20
      [] OTHER -> 10

\* round(n / d, 2 decimals) of an amount given in hundredths: half to even
RoundHalfEven(n, d) ==
    LET q == n \div d
        r == n % d
    IN  IF 2 * r < d THEN q
        ELSE IF 2 * r > d THEN q + 1
        ELSE IF q % 2 = 0 THEN q ELSE q + 1

default_cost_per_min == 75
default_duration == 30

\* LossCalculator.calculate: the estimated loss in hundredths of a currency unit
calculate(anomaly_type, duration_minutes, deviation_percent, cost_per_minute, ind) ==
    RoundHalfEven(Abs(deviation_percent.n) * duration_minutes * cost_per_minute
                      * industry_multipliers(ind) * anomaly_weights(anomaly_type),
                  deviation_percent.d * 100)

\* LossEstimationAgent._calculate_detection_loss
_calculate_detection_loss(detection, cost_per_min, ind) ==
    calculate(DictGet(detection, "anomaly_type", "UNKNOWN"),
              DictGet(detection, "duration_minutes", default_duration),
              DictGet(detection, "deviation_percent", F(10, 1)),
              cost_per_min, ind)

\* d[key] = d.get(key, 0) + amount
AddTo(d, key, amount) ==
    [k \in DOMAIN d \cup {key} |->
        IF k = key THEN (IF key \in DOMAIN d THEN d[key] ELSE 0) + amount ELSE d[k]]

\* the loop of LossEstimationAgent.process over the detections: the losses
\* one by one, their total, and the totals by type and by source
RECURSIVE LossLoop(_, _, _, _)
LossLoop(acc, detections, cost_per_min, ind) ==
    IF detections = <<>> THEN acc
    ELSE LET detection == Head(detections)
             loss == _calculate_detection_loss(detection, cost_per_min, ind)
             atype == DictGet(detection, "anomaly_type", "UNKNOWN")
             source == DictGet(detection, "anomaly_location", "unknown")
         IN  LossLoop([individual_losses |-> Append(acc.individual_losses, loss),
                       total_loss |-> acc.total_loss + loss,
                       by_type |-> AddTo(acc.by_type, atype, loss),
                       by_source |-> AddTo(acc.by_source, source, loss)],
                      Tail(detections), cost_per_min, ind)

NoLosses ==
    [individual_losses |-> <<>>, total_loss |-> 0, by_type |-> EmptyDict,
     by_source |-> EmptyDict]

\* LossEstimationAgent._estimate_total_duration
RECURSIVE _estimate_total_duration(_)
_estimate_total_duration(detections) ==
    IF detections = <<>> THEN 0
    ELSE DictGet(Head(detections), "duration_minutes", default_duration)
            + _estimate_total_duration(Tail(detections))

\* the fields FinancialLoss declares (those the pipeline output is read for)
\* and their defaults; money_lost_per_min, money_lost_total,
\* projected_future_loss and by_source are read-only properties, not fields
FinancialLossFields ==
    {"total_loss", "loss_per_hour", "loss_per_day", "projected_24h_loss",
     "by_type", "by_location"}

FinancialLossDefault(field) ==
    IF field \in {"by_type", "by_location"} THEN EmptyDict ELSE Zero

\* FinancialLoss(**kwargs).model_dump(): a keyword that names no declared
\* field is ignored, a declared field that is not given takes its default,
\* and a property is not part of the dump
FinancialLoss(kwargs) ==
    [field \in FinancialLossFields |->
        IF field \in DOMAIN kwargs THEN kwargs[field] ELSE FinancialLossDefault(field)]

\* the size of LossEstimationAgent.historical_losses
history_limit == 100

\* a buffer that keeps its first 100 entries and drops what comes later
TrackHistorical_keep_oldest(history, total_loss) ==
    IF Len(history) >= history_limit THEN history ELSE Append(history, total_loss)

\* self.historical_losses.append(total_loss), cut to the last 100 entries
TrackHistorical(history, total_loss) ==
    LET appended == Append(history, total_loss)
    IN  IF Len(appended) > history_limit
        THEN SubSeq(appended, Len(appended) - history_limit + 1, Len(appended))
        ELSE appended

NoLoss == [present |-> FALSE, total_loss |-> 0]

\* LossEstimationAgent.process: multiplying by a cost that is not a number
\* raises. Amounts are in hundredths; money_lost_per_min and
\* projected_future_loss are fractions of hundredths.
LossProcess(detections, business, history) ==
    LET cost_per_min == Get(business.cost_per_min, Num(default_cost_per_min))
        ind == GetS(business.industry, "MANUFACTURING")
    IN  IF detections # <<>> /\ ~IsNum(cost_per_min)
        THEN [status |-> "error", financial_loss |-> NoLoss,
              individual_losses |-> <<>>, cost_per_min |-> 0, industry |-> ind,
              historical_losses |-> history]
        ELSE LET sums == LossLoop(NoLosses, detections, cost_per_min.v, ind)
                 duration_mins == IF _estimate_total_duration(detections) > 1
                                  THEN _estimate_total_duration(detections) ELSE 1
                 money_per_min == F(sums.total_loss, duration_mins)
                 projected_24h == F(money_per_min.n * 60 * 24, money_per_min.d)
             IN  [status |-> "success",
                  financial_loss |->
                      FinancialLoss([total_loss |-> F(sums.total_loss, 1),
                                     money_lost_per_min |-> money_per_min,
                                     money_lost_total |-> F(sums.total_loss, 1),
                                     projected_future_loss |-> projected_24h,
                                     by_type |-> sums.by_type,
                                     by_source |-> sums.by_source]),
                  individual_losses |-> sums.individual_losses,
                  cost_per_min |-> cost_per_min.v, industry |-> ind,
                  historical_losses |-> TrackHistorical(history, sums.total_loss)]

----------------------------------------------------------------------------
(* Orchestrator: root causes, plan, execution *)

\* AOIAOrchestrator._generate_root_causes: one explanation per detection
_generate_root_causes(detections, affected_nodes) ==
    [i \in 1..Len(detections) |->
        [summary_type |-> detections[i].inefficiency_type,
         summary_location |-> detections[i].location_id,
         impacted_entities |-> affected_nodes.affected_machines
                                   \cup affected_nodes.affected_operators,
         impacted_work_items |-> affected_nodes.affected_tasks]]

NoSlot == [action |-> "", targets |-> <<>>]
Slot(action, targets) == [action |-> action, targets |-> targets]

EmptyPlan ==
    [present |-> TRUE, load_rebalancing |-> NoSlot, reassignments |-> NoSlot,
     priority_changes |-> NoSlot, capacity_adjustments |-> NoSlot,
     process_optimizations |-> NoSlot, alerts_to_send |-> NoSlot]

NoPlan == [EmptyPlan EXCEPT !.present = FALSE]

\* one iteration of the loop of _generate_optimization_plan
PlanStep(plan, detection) ==
    LET t == detection.inefficiency_type
        location == detection.location_id
        p1 == IF t \in {"OVERLOAD", "UNDERUTILIZATION", "LOAD_IMBALANCE"}
              THEN [plan EXCEPT !.load_rebalancing =
                        Slot("REBALANCE_LOAD", @.targets \o <<location>>)]
              ELSE plan
        p2 == IF t \in {"SLA_RISK", "SLA_BREACH"}
              THEN [p1 EXCEPT !.priority_changes = Slot("PRIORITIZE", <<location>>),
                              !.alerts_to_send = Slot("ALERT_SUPERVISOR", <<location>>)]
              ELSE p1
        p3 == IF t \in {"EXCESSIVE_HANDOVERS", "BOUNCE", "REWORK"}
              THEN [p2 EXCEPT !.process_optimizations = Slot("REROUTE", <<location>>)]
              ELSE p2
        p4 == IF t = "BOTTLENECK"
              THEN [p3 EXCEPT !.capacity_adjustments = Slot("ADD_CAPACITY", <<location>>)]
              ELSE p3
    IN  IF t \in {"IDLE_TIME", "BLOCKED"}
        THEN [p4 EXCEPT !.reassignments = Slot("REASSIGN", <<location>>)]
        ELSE p4

RECURSIVE PlanFold(_, _)
PlanFold(plan, detections) ==
    IF detections = <<>> THEN plan
    ELSE PlanFold(PlanStep(plan, Head(detections)), Tail(detections))

\* a plan made from the last detection alone
_generate_optimization_plan_last(detections) ==
    IF detections = <<>> THEN EmptyPlan
    ELSE PlanStep(EmptyPlan, detections[Len(detections)])

\* AOIAOrchestrator._generate_optimization_plan
_generate_optimization_plan(detections) == PlanFold(EmptyPlan, detections)

\* OptimizerAgent.execute: the dict it returns has the keys success, message
\* and details; success is drawn at random by the code
execute(action_type, success) ==
    [success |-> success, message |-> action_type,
     details |-> IF success THEN "executed" ELSE "resource unavailable"]

ExecutionAction(action_type, slot, status, approval) ==
    [action_type |-> action_type, target_id |-> slot.targets, parameters |-> slot,
     status |-> status, requires_approval |-> approval]

\* AOIAOrchestrator._create_pending_actions
_create_pending_actions(plan) ==
    (IF plan.load_rebalancing # NoSlot
     THEN <<ExecutionAction("REBALANCE_LOAD", plan.load_rebalancing, "PENDING", TRUE)>>
     ELSE <<>>)
    \o (IF plan.priority_changes # NoSlot
        THEN <<ExecutionAction("PRIORITIZE", plan.priority_changes, "PENDING", TRUE)>>
        ELSE <<>>)

\* the status _execute_actions gives the rebalancing action:
\* COMPLETED if result.get("status") == "success" else FAILED
RebalanceStatus(res) ==
    IF DictGet(res, "status", NoneS) = "success" THEN "COMPLETED" ELSE "FAILED"

\* AOIAOrchestrator._execute_actions
_execute_actions(plan, success) ==
    (IF plan.load_rebalancing # NoSlot
     THEN <<ExecutionAction("REBALANCE_LOAD", plan.load_rebalancing,
                            RebalanceStatus(execute("REBALANCE_WORKLOAD", success)),
                            FALSE)>>
     ELSE <<>>)
    \o (IF plan.priority_changes # NoSlot
        THEN <<ExecutionAction("PRIORITIZE", plan.priority_changes, "COMPLETED", FALSE)>>
        ELSE <<>>)
    \o (IF plan.alerts_to_send # NoSlot
        THEN <<ExecutionAction("ALERT_SUPERVISOR", plan.alerts_to_send, "COMPLETED", FALSE)>>
        ELSE <<>>)
    \o (IF plan.process_optimizations # NoSlot
        THEN <<ExecutionAction("REROUTE", plan.process_optimizations, "COMPLETED", FALSE)>>
        ELSE <<>>)

\* the number of OptimizerAgent.execute calls _execute_actions makes
ExecuteCalls(plan) == IF plan.load_rebalancing # NoSlot THEN 1 ELSE 0

\* the level _convert_to_detections derives from the severity score
ConvertedLevel(severity) ==
    IF FLt(severity, F(3, 10)) THEN "low"
    ELSE IF FLt(severity, F(6, 10)) THEN "medium"
    ELSE IF FLt(severity, F(85, 100)) THEN "high"
    ELSE "critical"

\* InefficiencyDetection accepts a severity_score in [0, 1] only
ValidSeverity(d) == FLe(Zero, d.severity_score) /\ FLe(d.severity_score, One)

\* AOIAOrchestrator._convert_to_detections: a detection that fails validation
\* is dropped
_convert_to_detections(detections) ==
    LET kept == SelectSeq(detections, ValidSeverity)
    IN  [i \in 1..Len(kept) |->
            [kept[i] EXCEPT !.severity_level = ConvertedLevel(kept[i].severity_score)]]

\* AOIAOrchestrator._convert_to_financial_loss, on the dict the Loss
\* Estimator dumped; total_loss is kept in whole hundredths
_convert_to_financial_loss(loss_data) ==
    LET total == DictGet(loss_data, "total_loss", Zero)
        per_min == DictGet(loss_data, "money_lost_per_min", Zero)
    IN  [present |-> TRUE,
         total_loss |-> total.n \div total.d,
         loss_per_hour |-> IF per_min.n # 0 THEN F(per_min.n * 60, per_min.d)
                           ELSE F(total.n, total.d * 8),
         loss_per_day |-> total,
         projected_24h_loss |->
             DictGet(loss_data, "projected_future_loss", F(total.n * 3, total.d * 2)),
         by_type |-> DictGet(loss_data, "by_type", EmptyDict),
         by_location |-> DictGet(loss_data, "by_source", EmptyDict)]

\* AOIAOutput as run_pipeline builds it
AOIAOutput(status, errors, ineffs, causes, loss, plan, actions, has_baselines, m, ind) ==
    [status |-> status, errors |-> errors, inefficiencies |-> ineffs,
     root_causes |-> causes, financial_loss |-> loss,
     optimization_plan |-> plan, actions_executed |-> actions,
     updated_baselines |-> has_baselines, autonomy_mode |-> m,
     industry |-> ind]

NoOutput == AOIAOutput("", <<>>, <<>>, <<>>, NoLoss, NoPlan, <<>>, FALSE, "", "")

\* what an operation left behind: its return value or the fact that it raised,
\* with the detector's raw output, the stages that ran, the number of
\* OptimizerAgent.execute calls, the Loss Estimator's per-detection losses and
\* cost, and (value) what an agent called on its own returned
Result(kind, output, detections, stages, exec_calls) ==
    [kind |-> kind, output |-> output, detections |-> detections,
     stages |-> stages, exec_calls |-> exec_calls, individual_losses |-> <<>>,
     cost_per_min |-> 0, value |-> <<>>]

NoResult == Result("none", NoOutput, <<>>, <<>>, 0)

----------------------------------------------------------------------------
(* Orchestrator: run_pipeline, set_mode *)

\* Python's True and False as dict values
True == Num(1)
False == Num(0)

\* the orchestrator with its agents, as run_pipeline reads and writes it
Self(m, ind, base, n, g, h) ==
    [mode |-> m, industry |-> ind, baselines |-> base, learned |-> n,
     graph |-> g, historical_losses |-> h]

\* steps 3 to 6 of the try block of run_pipeline, on the Detector's result:
\* Knowledge Graph, root causes, Loss Estimator, plan; kg_fault is an
\* exception inside the Knowledge Graph agent
AnalysisOf(self, normalized_data, detection_result, kg_fault) ==
    LET detections == detection_result.detections
        kg_result == KnowledgeGraphProcess(self.graph, normalized_data, detections,
                                           kg_fault)
    IN  [detection_result |-> detection_result,
         kg_result |-> kg_result,
         root_causes |-> _generate_root_causes(detections, kg_result.affected_nodes),
         loss_result |-> LossProcess(detections, normalized_data.business,
                                     self.historical_losses),
         optimization_plan |-> _generate_optimization_plan(detections)]

\* steps 1 to 6 of the try block: normalization and the Detector, whose
\* result the later steps share
Analysis(self, input_data, kg_fault) ==
    LET normalized_data == _normalize_input(input_data)
    IN  CHOOSE a \in {AnalysisOf(self, normalized_data, detection_result, kg_fault) :
                        detection_result \in
                            {DetectionProcess(normalized_data, self.baselines)}} : TRUE

\* step 7 of the try block under the mode m that self._mode holds when the
\* step reads it: whether the step runs, the actions it returns and the
\* number of OptimizerAgent.execute calls it makes
ExecutionStep(plan, m, dry, success) ==
    LET runs == can_execute(m) /\ ~dry
    IN  [runs |-> runs,
         actions_executed |->
            IF ~runs THEN <<>>
            ELSE IF requires_approval(m) THEN _create_pending_actions(plan)
            ELSE _execute_actions(plan, success),
         exec_calls |-> IF runs /\ ~requires_approval(m) THEN ExecuteCalls(plan) ELSE 0]

\* steps 7 and 8 of the try block and the construction of the output;
\* success is the outcome OptimizerAgent.execute draws
Finish(self, a, m, ind, dry, success) ==
    LET detections == a.detection_result.detections
        step == ExecutionStep(a.optimization_plan, m, dry, success)
        runs == step.runs
        actions_executed == step.actions_executed
        exec_calls == step.exec_calls
        errors == (IF a.detection_result.status = "error" THEN <<"Detection">> ELSE <<>>)
                  \o (IF a.kg_result.status = "error" THEN <<"KnowledgeGraph">> ELSE <<>>)
                  \o (IF a.loss_result.status = "error" THEN <<"LossEstimation">> ELSE <<>>)
        stages == <<"normalize", "detection", "knowledge_graph", "root_causes",
                    "loss_estimation", "plan">>
                  \o (IF runs THEN <<"execution">> ELSE <<>>) \o <<"learn">>
        after == Self(m, ind, a.detection_result.baselines, self.learned + 1,
                      a.kg_result.graph, a.loss_result.historical_losses)
    IN  \* AOIAOutput requires industry to be a string: with None both the
        \* constructor in the try block and the one in the handler raise
        IF ind = NoneS
        THEN [self |-> after,
              result |-> Result("raised", NoOutput, detections, stages, exec_calls)]
        ELSE [self |-> after,
              result |-> [Result("returned",
                  AOIAOutput(IF errors = <<>> THEN "completed" ELSE "completed_with_errors",
                             errors, _convert_to_detections(detections), a.root_causes,
                             IF a.loss_result.status = "success"
                             THEN _convert_to_financial_loss(a.loss_result.financial_loss)
                             ELSE NoLoss,
                             a.optimization_plan, actions_executed, TRUE, m, ind),
                  detections, stages, exec_calls)
                  EXCEPT !.individual_losses = a.loss_result.individual_losses,
                         !.cost_per_min = a.loss_result.cost_per_min]]

\* the try block of run_pipeline, given that normalization succeeded
TryBlock(self, input_data, m, ind, dry, kg_fault, success) ==
    CHOOSE r \in {Finish(self, a, m, ind, dry, success) :
                    a \in {Analysis(self, input_data, kg_fault)}} : TRUE

\* the except block of run_pipeline
ExceptBlock(self, m, ind) ==
    LET after == [self EXCEPT !.mode = m, !.industry = ind]
    IN  IF ind = NoneS
        THEN [self |-> after, result |-> Result("raised", NoOutput, <<>>, <<>>, 0)]
        ELSE [self |-> after,
              result |-> Result("returned",
                                AOIAOutput("failed", <<"exception">>, <<>>, <<>>, NoLoss,
                                           NoPlan, <<>>, FALSE, m, ind),
                                <<>>, <<>>, 0)]

\* a dry run decided by the call argument alone
DryRun_argument_only(dry_run, input_data) == dry_run

\* dry_run = dry_run or input_data.get("dry_run", False)
DryRun(dry_run, input_data) == dry_run \/ Truthy(Get(input_data.dry_run, Null))

\* AOIAOrchestrator.run_pipeline(input_data, dry_run)
run_pipeline(self, input_data, dry_run, kg_fault, success) ==
    LET mode_field == input_data.autonomy_mode
        \* from_string(None) raises on None.upper(), before the try block
        m == IF mode_field.k = "absent" THEN from_string(ModeValue(self.mode))
             ELSE from_string(mode_field.s)
        business == input_data.business
        ind == GetS(business.d.industry, "GENERAL")
        dry == DryRun(dry_run, input_data)
    IN  IF mode_field.k = "none"
        THEN [self |-> self, result |-> Result("raised", NoOutput, <<>>, <<>>, 0)]
        ELSE IF business.k = "none"
        \* None.get raises, before the try block and after _mode was assigned
        THEN [self |-> [self EXCEPT !.mode = m],
              result |-> Result("raised", NoOutput, <<>>, <<>>, 0)]
        ELSE IF NormalizeRaises(input_data)
        THEN ExceptBlock(self, m, ind)
        ELSE TryBlock(self, input_data, m, ind, dry, kg_fault, success)

\* AOIAOrchestrator.set_mode(mode)
set_mode(self, mode_str) == [self EXCEPT !.mode = from_string(mode_str)]

----------------------------------------------------------------------------
(* Snapshots the runs are given *)

Agent_23 == Entity("Agent_23", "agent", "busy", Num(92), Num(8), Absent, Absent)
Agent_12 == Entity("Agent_12", "agent", "active", Num(38), Num(2), Absent, Absent)
TKT_4781 == WorkItem("TKT-4781", "ticket", "in_progress", Absent, Absent, Absent, Absent,
                     Num(29), Num(-2), Num(45))

\* a legacy machine, shift and workflow record: only legacy keys are present
Machine(id, state, output) ==
    [Entity(AbsentS, AbsentS, AbsentS, Absent, Absent, Absent, Absent)
        EXCEPT !.machine_id = id, !.machine_state = state, !.output_per_min = output]
Shift(id, load) ==
    [Entity(AbsentS, AbsentS, AbsentS, Absent, Absent, Absent, Absent)
        EXCEPT !.operator_id = id, !.operator_load = load]
Workflow(id, loops) ==
    [WorkItem(AbsentS, AbsentS, AbsentS, Absent, Absent, Absent, Absent, Absent,
              Absent, Absent)
        EXCEPT !.task_id = id, !.rework_loops = loops]

\* the operational data of a snapshot: entities, work_items, processes,
\* machines, shifts, workflows
Data(ents, items, procs, machines, shifts, workflows) ==
    [entities |-> ents, work_items |-> items, processes |-> procs,
     machines |-> machines, shifts |-> shifts, workflows |-> workflows]

EmptyData == Data(AbsentL, AbsentL, AbsentL, AbsentL, AbsentL, AbsentL)

\* the scenario of the specification: one overloaded agent, one breached ticket
ScenarioData == Data(L(<<Agent_23>>), L(<<TKT_4781>>), AbsentL, AbsentL, AbsentL, AbsentL)

\* the snapshot run_bpo_demo builds
DemoData ==
    Data(L(<<Agent_23, Agent_12>>), L(<<TKT_4781>>), AbsentL, AbsentL, AbsentL, AbsentL)

\* an entity whose load is a string: the Detector's comparison raises
BadLoadData ==
    Data(L(<<Entity("E1", "agent", "active", BadStr, Num(0), Absent, Absent)>>),
         AbsentL, AbsentL, AbsentL, AbsentL, AbsentL)

\* machines: null makes _normalize_input raise
NullMachinesData == Data(L(<<Agent_23>>), AbsentL, AbsentL, NullL, AbsentL, AbsentL)

\* the snapshot of test_legacy_format
LegacyData ==
    Data(AbsentL, AbsentL, AbsentL,
         L(<<Machine("M1", "idle", Num(6)), Machine("M2", "down", Num(0))>>),
         L(<<Shift("OP1", Num(95))>>),
         L(<<Workflow("T1", Num(3))>>))

\* flow and capacity issues: handovers, a bottleneck, an idle entity
FlowData ==
    Data(L(<<Entity("E2", "machine", "idle", Num(50), Num(0), Num(20), Absent)>>),
         L(<<WorkItem("W1", "order", "blocked", Num(4), Num(0), Num(2), Num(0),
                      Num(10), Num(5), Num(50))>>),
         L(<<Process("P1", "review")>>), AbsentL, AbsentL, AbsentL)

BpoBusiness == DictB(Business("BPO", Absent, Num(720), Absent, Absent))
LegacyBusiness == DictB(Business("MANUFACTURING", Num(75), Absent, Absent, Num(10)))
NullIndustryBusiness == DictB(Business(NoneS, Absent, Num(720), Absent, Absent))
BadCostBusiness == DictB(Business("BPO", BadStr, Absent, Absent, Absent))

MakeSnapshot(m, b, dry, d) ==
    Snapshot(m, b, dry, d.entities, d.work_items, d.processes,
             d.machines, d.shifts, d.workflows)

NoSnapshot == MakeSnapshot(AbsentM, AbsentB, Absent, EmptyData)

\* snapshots of the pipeline runs: every mode over the kinds of data, and
\* the malformed settings over the scenario
Inputs ==
    {MakeSnapshot(m, BpoBusiness, Absent, d) :
        m \in {AbsentM, StrM(ASSIST_S), StrM(COPILOT_S), StrM(FULL_AUTO_S)},
        d \in {ScenarioData, FlowData, BadLoadData}}
    \cup {MakeSnapshot(AbsentM, AbsentB, Absent, d) :
        d \in {EmptyData, DemoData, NullMachinesData}}
    \cup {MakeSnapshot(AbsentM, b, Absent, ScenarioData) :
        b \in {NullB, NullIndustryBusiness, BadCostBusiness}}
    \cup {MakeSnapshot(NullM, BpoBusiness, Absent, ScenarioData),
          MakeSnapshot(NullM, NullB, Absent, EmptyData),
          MakeSnapshot(AbsentM, LegacyBusiness, Absent, LegacyData),
          MakeSnapshot(StrM(FULL_AUTO_S), BpoBusiness, Absent, DemoData),
          MakeSnapshot(StrM(FULL_AUTO_S), BpoBusiness, True, DemoData)}

\* what the environment decides in one run: the dry_run argument, whether
\* the Knowledge Graph agent fails, whether OptimizerAgent.execute succeeds
Env(dry_run, kg_fault, success) ==
    [dry_run |-> dry_run, kg_fault |-> kg_fault, success |-> success]
Envs == {Env(FALSE, FALSE, TRUE), Env(FALSE, FALSE, FALSE),
         Env(FALSE, TRUE, TRUE), Env(TRUE, FALSE, TRUE)}

\* the strings set_mode is called with
SetModeStrings == {ASSIST_S, COPILOT_S, FULL_AUTO_S, <<"a", "u", "t", "o">>}

----------------------------------------------------------------------------
(* The orchestrator as a state machine *)

\* the number of runs that reach the learning step
MaxRuns == 2

Call(op, input, env, mode_arg) ==
    [op |-> op, input |-> input, env |-> env, mode_arg |-> mode_arg]
NoCall == Call("none", NoSnapshot, Env(FALSE, FALSE, FALSE), <<>>)

\* the agents built on BaseAgent whose counters are followed
AgentNames == {"detection", "knowledge_graph", "loss_estimation"}

\* BaseAgent.__init__: the status and the run counters of a new agent
NewAgent ==
    [status |-> "idle", total_runs |-> 0, successful_runs |-> 0, failed_runs |-> 0]

\* BaseAgent._start_processing
_start_processing(agent) ==
    [agent EXCEPT !.status = "processing", !.total_runs = @ + 1]

\* a completion that counts the successful runs only
_complete_processing_successes_only(agent, success) ==
    [agent EXCEPT !.status = "idle",
                  !.successful_runs = IF success THEN @ + 1 ELSE @]

\* BaseAgent._complete_processing
_complete_processing(agent, success) ==
    [agent EXCEPT !.status = "idle",
                  !.successful_runs = IF success THEN @ + 1 ELSE @,
                  !.failed_runs = IF success THEN @ ELSE @ + 1]

\* the bookkeeping of one process call: _start_processing before the try
\* block, _complete_processing at the end of the try block or in the handler
ProcessCall(agent, success) == _complete_processing(_start_processing(agent), success)

\* the callers that run the pipeline concurrently on one orchestrator
Callers == {"c1", "c2"}

\* a caller that is not inside run_pipeline
IdleRun ==
    [pc |-> "idle", input |-> NoSnapshot, dry |-> FALSE, detections |-> <<>>,
     plan |-> NoPlan, actions |-> <<>>, exec_calls |-> 0]

NoFlight == [pipeline_id |-> "none", runs |-> [c \in Callers |-> IdleRun]]

\* AOIAOrchestrator.__init__, which constructs its agents
Init ==
    /\ mode = "FULL_AUTO"
    /\ industry = "GENERAL"
    /\ baselines = Absent
    /\ learned = 0
    /\ knowledge_graph = EmptyGraph
    /\ historical_losses = <<>>
    /\ issued_actions = <<>>
    /\ agents = [a \in AgentNames |-> NewAgent]
    /\ in_flight = NoFlight
    /\ call = NoCall
    /\ result = NoResult

\* the orchestrator and its agents in the current state
Current ==
    Self(mode, industry, baselines, learned, knowledge_graph, historical_losses)

\* the ExecutionAction objects of an output, as the caller holds them: each
\* has its own action_id
Issue(issued, actions) ==
    issued \o [i \in 1..Len(actions) |->
                 [action_id |-> Len(issued) + i,
                  action_type |-> actions[i].action_type,
                  status |-> actions[i].status]]

\* one call of run_pipeline on a snapshot
Run(input, env) ==
    /\ learned < MaxRuns
    /\ \E r \in {run_pipeline(Current, input, env.dry_run, env.kg_fault, env.success)} :
        /\ mode' = r.self.mode
        /\ industry' = r.self.industry
        /\ baselines' = r.self.baselines
        /\ learned' = r.self.learned
        /\ knowledge_graph' = r.self.graph
        /\ historical_losses' = r.self.historical_losses
        /\ issued_actions' = IF r.result.kind = "returned"
                             THEN Issue(issued_actions, r.result.output.actions_executed)
                             ELSE issued_actions
        /\ call' = Call("run_pipeline", input, env, <<>>)
        /\ result' = r.result
    /\ UNCHANGED <<agents, in_flight>>

\* the snapshots that are run under every environment
EnvInputs ==
    {MakeSnapshot(StrM(m), BpoBusiness, Absent, d) :
        m \in {ASSIST_S, COPILOT_S, FULL_AUTO_S}, d \in {ScenarioData, BadLoadData}}

RunPipeline ==
    \/ \E input \in Inputs : Run(input, Env(FALSE, FALSE, TRUE))
    \/ \E input \in EnvInputs, env \in Envs : Run(input, env)

\* one call of set_mode
SetModeTo(mode_str) ==
    LET after == set_mode(Current, mode_str)
    IN  /\ mode' = after.mode
        /\ call' = Call("set_mode", NoSnapshot, Env(FALSE, FALSE, FALSE), mode_str)
        /\ result' = Result("set_mode", NoOutput, <<>>, <<>>, 0)
        /\ UNCHANGED <<industry, baselines, learned, knowledge_graph,
                       historical_losses, issued_actions, agents, in_flight>>

SetMode == \E mode_str \in SetModeStrings : SetModeTo(mode_str)

Next == RunPipeline \/ SetMode

Spec == Init /\ [][Next]_vars

----------------------------------------------------------------------------
(* The autonomy mode: set_mode and runs over many spellings *)

ModeStrings ==
    {ASSIST_S, COPILOT_S, FULL_AUTO_S,
     <<"a", "s", "s", "i", "s", "t">>,
     <<"A", "s", "s", "i", "s", "t">>,
     <<" ", "a", "s", "s", "i", "s", "t", " ">>,
     <<"\t", "C", "O", "P", "I", "L", "O", "T", "\n">>,
     <<"c", "o", "p", "i", "l", "o", "t">>,
     <<"C", "o", "P", "i", "l", "o", "t", " ", " ">>,
     <<"f", "u", "l", "l", "_", "a", "u", "t", "o">>,
     <<" ", "F", "u", "l", "l", "_", "A", "u", "t", "o">>,
     <<>>,
     <<" ">>,
     <<"a", "u", "t", "o">>,
     <<"x">>,
     <<"F", "U", "L", "L", " ", "A", "U", "T", "O">>,
     <<"A", "S", " ", "S", "I", "S", "T">>,
     <<"A", "S", "S", "I", "S", "T", "X">>,
     <<"C", "O", "P", "I", "L", "O">>}

\* snapshots that differ in the autonomy_mode key
ModeInputs ==
    {MakeSnapshot(m, AbsentB, Absent, d) :
        m \in {AbsentM} \cup {StrM(chars) : chars \in ModeStrings},
        d \in {EmptyData, ScenarioData}}

RunMode == \E input \in ModeInputs : Run(input, Env(FALSE, FALSE, TRUE))

SetModeAny == \E mode_str \in ModeStrings : SetModeTo(mode_str)

NextMode == RunMode \/ SetModeAny

SpecMode == Init /\ [][NextMode]_vars

----------------------------------------------------------------------------
(* The Detector: first runs of a fresh orchestrator over many snapshots *)

Loads == {-5, 0, 1, 28, 39, 40, 41, 89, 90, 92, 97, 100, 120}

OneEntity(e) == Data(L(<<e>>), AbsentL, AbsentL, AbsentL, AbsentL, AbsentL)
OneItem(w) == Data(AbsentL, L(<<w>>), AbsentL, AbsentL, AbsentL, AbsentL)

\* one entity: its load, state, queue and idle time
EntityDatas ==
    {OneEntity(Entity("E1", "agent", st, ld, q, idle, Absent)) :
        st \in {"active", "idle", "offline", "blocked", "down", AbsentS},
        ld \in {Num(x) : x \in Loads} \cup {Absent, Null},
        q \in {Absent, Num(12)},
        idle \in {Absent, Num(20)}}

\* one legacy shift: the load comes from operator_load
ShiftDatas ==
    {Data(AbsentL, AbsentL, AbsentL, AbsentL, L(<<Shift("OP1", ld)>>), AbsentL) :
        ld \in {Num(x) : x \in Loads} \cup {Absent}}

\* two entities: the loads that make or do not make an imbalance
PairLoads == {Absent, Num(0), Num(30), Num(50), Num(69), Num(70), Num(95)}
PairDatas ==
    {Data(L(<<Entity("E1", "agent", "active", l1, Absent, Absent, Absent),
              Entity("E2", "agent", "active", l2, Absent, Absent, Absent)>>),
          AbsentL, AbsentL, AbsentL, AbsentL, AbsentL) :
        l1 \in PairLoads, l2 \in PairLoads}

\* one work item: its SLA fields and status
Remainings == {Absent, Null, Num(-5), Num(-2), Num(0), Num(1), Num(9), Num(10),
               Num(11), Num(45)}
Targets == {Absent, Null, Num(0), Num(45), Num(50), Num(-10)}
SlaDatas ==
    {OneItem(WorkItem("W1", "ticket", st, Absent, Absent, Absent, Absent, Absent, r, t)) :
        st \in {"in_progress", "blocked"}, r \in Remainings, t \in Targets}

\* two work items with their own SLA
SlaPairDatas ==
    {Data(AbsentL,
          L(<<WorkItem("W1", "ticket", "open", Absent, Absent, Absent, Absent, Absent,
                       r1, Num(45)),
              WorkItem("W2", "ticket", "open", Absent, Absent, Absent, Absent, Absent,
                       r2, Num(45))>>),
          AbsentL, AbsentL, AbsentL, AbsentL) :
        r1 \in {Num(-2), Num(5), Num(30)}, r2 \in {Num(-2), Num(5), Num(30)}}

\* one work item: its counters
CountDatas ==
    {OneItem(WorkItem("W1", "order", "open", h, rw, b, es, wt, Absent, Absent)) :
        h \in {Absent, Num(3), Num(9)}, rw \in {Absent, Num(2)}, b \in {Absent, Num(5)},
        es \in {Num(0), Num(2)}, wt \in {Absent, Num(30), Num(200)}}

\* one entity reporting a throughput, under the legacy baseline
ThroughputDatas ==
    {OneEntity(Entity("E1", "machine", "active", Num(50), Absent, Absent, t)) :
        t \in {Absent, Num(0), Num(100), Num(479), Num(480), Num(600), Num(700)}}

DetectInputs ==
    {MakeSnapshot(AbsentM, AbsentB, Absent, d) :
        d \in EntityDatas \cup ShiftDatas \cup PairDatas \cup SlaDatas
              \cup SlaPairDatas \cup CountDatas \cup {FlowData, LegacyData, BadLoadData}}
    \cup {MakeSnapshot(AbsentM, LegacyBusiness, Absent, d) : d \in ThroughputDatas}

\* the first run of a fresh orchestrator
RunDetect ==
    /\ call = NoCall
    /\ \E input \in DetectInputs : Run(input, Env(FALSE, FALSE, TRUE))

SpecDetect == Init /\ [][RunDetect]_vars

----------------------------------------------------------------------------
(* The Loss Estimator called on its own, run after run *)

\* detections as the Detector dumps them
PlainDetections == <<_create_detection("IDLE_TIME", "E1", "agent", F(1, 2), F(20, 1))>>
MarkedDetections ==
    <<_create_detection("IDLE_TIME", "E1", "agent", F(1, 2), F(20, 1)),
      _create_detection("REWORK", "W1", "task", F(1, 2), F(50, 1))>>

\* the total the Loss Estimator gives a list of detections at the default cost
TotalOf(detections) ==
    LossLoop(NoLosses, detections, default_cost_per_min, "GENERAL").total_loss

GeneralBusiness == Business("GENERAL", Absent, Num(75), Absent, Absent)
BadCost == Business("GENERAL", BadStr, Absent, Absent, Absent)

\* one call of LossEstimationAgent.process; result.value is the buffer as
\* it was before the call
LossRun(detections, business) ==
    /\ \E r \in {LossProcess(detections, business, historical_losses)} :
        /\ historical_losses' = r.historical_losses
        /\ call' = Call("loss_process", NoSnapshot, Env(FALSE, FALSE, FALSE), <<>>)
        /\ result' = [Result(r.status, NoOutput, detections, <<>>, 0)
                        EXCEPT !.individual_losses = r.individual_losses,
                               !.cost_per_min = r.cost_per_min,
                               !.value = historical_losses]
    /\ UNCHANGED <<mode, industry, baselines, learned, knowledge_graph, issued_actions,
                   agents, in_flight>>

\* runs of the plain detections, failing runs, and a run of the marked
\* detections whenever the buffer holds no marked total
LossRuns ==
    \/ LossRun(PlainDetections, GeneralBusiness)
    \/ LossRun(PlainDetections, BadCost)
    \/ /\ TotalOf(MarkedDetections) \notin Range(historical_losses)
       /\ LossRun(MarkedDetections, GeneralBusiness)

SpecHistory == Init /\ [][LossRuns]_vars

----------------------------------------------------------------------------
(* The Knowledge Graph agent: its own calls and pipeline runs *)

\* a legacy workflow record with its process_sequence, a machine with the
\* task it works on, a shift with its task assignments
SequenceData(task_id, sequence) ==
    [workflows |-> <<[task_id |-> task_id, process_sequence |-> sequence]>>]
MachineData(machine_state) ==
    [machines |-> <<[machine_id |-> "M1", machine_state |-> machine_state]>>,
     workflows |-> <<[task_id |-> "A"]>>]
ShiftData == [shifts |-> <<[operator_id |-> "OP1", task_assignments |-> <<"D">>]>>]

\* the chain A -> B -> C -> D
ChainData == SequenceData("A", <<"A", "B", "C", "D">>)

\* the dicts the agent is given: the chain, a piece of it, the edge that
\* closes it to a cycle, a machine in two states, a shift
GraphDatas ==
    {ChainData, SequenceData("C", <<"C", "D">>), SequenceData("D", <<"D", "A">>),
     MachineData("idle"), MachineData("down"), ShiftData}

\* a detection in the legacy shape, which names its anomaly_location
LegacyDetection(location) == [anomaly_location |-> location, location_type |-> "task"]

\* one call of KnowledgeGraphAgent.process(input_data, context)
GraphProcess(input_data, detections) ==
    /\ \E r \in {KnowledgeGraphProcess(knowledge_graph, input_data, detections, FALSE)} :
        /\ knowledge_graph' = r.graph
        /\ call' = Call("kg_process", NoSnapshot, Env(FALSE, FALSE, FALSE), input_data)
        /\ result' = [Result(r.status, NoOutput, detections, <<>>, 0)
                        EXCEPT !.value = r.affected_nodes]
    /\ UNCHANGED <<mode, industry, baselines, learned, historical_losses, issued_actions,
                   agents, in_flight>>

GraphProcessCalls ==
    \E input_data \in GraphDatas, detections \in {<<>>, <<LegacyDetection("D")>>} :
        GraphProcess(input_data, detections)

\* one call of KnowledgeGraphAgent.clear_graph
ClearGraph ==
    /\ knowledge_graph' = clear_graph(knowledge_graph)
    /\ call' = Call("clear_graph", NoSnapshot, Env(FALSE, FALSE, FALSE), <<>>)
    /\ result' = Result("returned_none", NoOutput, <<>>, <<>>, 0)
    /\ UNCHANGED <<mode, industry, baselines, learned, historical_losses, issued_actions,
                   agents, in_flight>>

\* the depths and seeds of the traversals; Z is no stored node
Depths == {0, 1, 2, 3}
Seeds == {"A", "D", "M1", "Z"}

\* one call of KnowledgeGraphAgent._get_connected_nodes(start_node, max_depth)
ConnectedNodes(start_node, max_depth) ==
    /\ call' = Call("connected_nodes", NoSnapshot, Env(FALSE, FALSE, FALSE),
                    <<start_node, max_depth>>)
    /\ result' = [Result("returned", NoOutput, <<>>, <<>>, 0)
                    EXCEPT !.value = _get_connected_nodes(knowledge_graph, start_node,
                                                          max_depth)]
    /\ UNCHANGED <<mode, industry, baselines, learned, knowledge_graph,
                   historical_losses, issued_actions, agents, in_flight>>

Traversals ==
    \E start_node \in Seeds, max_depth \in Depths : ConnectedNodes(start_node, max_depth)

\* a pipeline run on the same orchestrator, among the agent's own calls: the
\* legacy snapshot, whose machines, shifts and workflows name graph nodes
GraphRunInput == MakeSnapshot(StrM(ASSIST_S), LegacyBusiness, Absent, LegacyData)

GraphRuns == learned = 0 /\ Run(GraphRunInput, Env(FALSE, FALSE, TRUE))

NextGraph == GraphProcessCalls \/ ClearGraph \/ Traversals \/ GraphRuns

SpecGraph == Init /\ [][NextGraph]_vars

----------------------------------------------------------------------------
(* One snapshot given to two freshly constructed orchestrators *)

\* AOIAOrchestrator.__init__ with a preset throughput baseline
NewOrchestrator_warm == Self("FULL_AUTO", "GENERAL", Num(600), 0, EmptyGraph, <<>>)

\* AOIAOrchestrator.__init__: the orchestrator and its agents as constructed
NewOrchestrator == Self("FULL_AUTO", "GENERAL", Absent, 0, EmptyGraph, <<>>)

\* the legacy business block, by its cost_per_min
LegacyBusinessAt(cost_per_min) ==
    DictB(Business("MANUFACTURING", Num(cost_per_min), Absent, Absent, Num(10)))

\* legacy snapshots: machines, shifts, workflows and the legacy business names
LegacyInputs ==
    {MakeSnapshot(AbsentM, LegacyBusinessAt(cost_per_min), Absent, d) :
        cost_per_min \in {75, 100}, d \in {LegacyData} \cup ShiftDatas}

\* a snapshot that mixes the canonical lists with legacy machines, shifts
\* and workflows
MixedData ==
    Data(L(<<Agent_12>>), L(<<TKT_4781>>), AbsentL,
         L(<<Machine("M2", "down", Num(0))>>),
         L(<<Shift("OP1", Num(95))>>),
         L(<<Workflow("T1", Num(3))>>))

MixedInputs ==
    {MakeSnapshot(AbsentM, b, Absent, MixedData) : b \in {AbsentB, LegacyBusiness}}

FreshInputs ==
    DetectInputs \cup LegacyInputs \cup MixedInputs
        \cup {MakeSnapshot(AbsentM, AbsentB, Absent, d) : d \in ThroughputDatas}

\* what is compared of a run: the type, location and severity of each
\* detection in order, and the total loss of the output
Signature(detections) ==
    [i \in 1..Len(detections) |->
        <<detections[i].inefficiency_type, detections[i].location_id,
          detections[i].severity_score, detections[i].severity_level>>]
Compared(r) ==
    [kind |-> r.kind, signature |-> Signature(r.detections),
     total_loss |-> r.output.financial_loss.total_loss]

\* the first orchestrator runs the snapshot
FirstRun ==
    /\ call = NoCall
    /\ \E input \in FreshInputs : Run(input, Env(FALSE, FALSE, TRUE))

\* a run on a second orchestrator, which becomes the current one; what the
\* first run gave is kept in the call
SecondRun(op, input) ==
    \E r \in {run_pipeline(NewOrchestrator, input, FALSE, FALSE, TRUE)} :
        /\ mode' = r.self.mode
        /\ industry' = r.self.industry
        /\ baselines' = r.self.baselines
        /\ learned' = r.self.learned
        /\ knowledge_graph' = r.self.graph
        /\ historical_losses' = r.self.historical_losses
        /\ issued_actions' = IF r.result.kind = "returned"
                             THEN Issue(issued_actions, r.result.output.actions_executed)
                             ELSE issued_actions
        /\ call' = Call(op, call.input, Env(FALSE, FALSE, TRUE), Compared(result))
        /\ result' = r.result
        /\ UNCHANGED <<agents, in_flight>>

\* the same snapshot on a second fresh orchestrator
FreshRerun ==
    /\ call.op = "run_pipeline"
    /\ SecondRun("fresh_rerun", call.input)

\* the documented alias mapping of the input snapshot
CanonicalMachine(m) ==
    Entity(m.machine_id, "machine", m.machine_state, m.operator_load, m.queue_size,
           m.idle_time_minutes, m.output_per_min)
CanonicalOperator(sh) ==
    Entity(sh.operator_id, "operator", sh.state, sh.operator_load, sh.queue_size,
           sh.idle_time_minutes, sh.throughput)
CanonicalTask(w) ==
    WorkItem(w.task_id, "task", w.status, w.task_transfers, w.rework_loops,
             w.bounce_count, w.escalation_count, w.wait_time_minutes,
             w.sla_remaining_minutes, w.sla_target_minutes)
CanonicalBusiness(b) ==
    Business(b.industry, Absent,
             IF b.cost_per_min.k = "absent" THEN b.cost_per_hour
             ELSE Times60(b.cost_per_min),
             IF b.baseline_output_per_min.k = "absent" THEN b.baseline_throughput
             ELSE Times60(b.baseline_output_per_min),
             Absent)
Canonical(input) ==
    Snapshot(input.autonomy_mode, DictB(CanonicalBusiness(input.business.d)),
             input.dry_run,
             L(GetL(input.entities).l
                 \o [i \in 1..Len(input.machines.l) |-> CanonicalMachine(input.machines.l[i])]
                 \o [i \in 1..Len(input.shifts.l) |-> CanonicalOperator(input.shifts.l[i])]),
             L(GetL(input.work_items).l
                 \o [i \in 1..Len(input.workflows.l) |-> CanonicalTask(input.workflows.l[i])]),
             input.processes, AbsentL, AbsentL, AbsentL)

\* the canonical form of a legacy snapshot on a second fresh orchestrator
CanonicalRerun ==
    /\ call.op = "run_pipeline"
    /\ call.input \in LegacyInputs
    /\ SecondRun("canonical_rerun", Canonical(call.input))

\* the caller's snapshot object after _normalize_input ran on it without
\* raising: entities and work_items, when the snapshot has them, are the
\* caller's own lists, to which the converted machines, shifts and workflows
\* were appended; business, unless empty, is the caller's own mapping, in
\* which the derived keys were set
SnapshotAfter(input) ==
    LET normalized == _normalize_input(input)
    IN  [input EXCEPT
            !.entities = IF @.k = "list" THEN normalized.entities ELSE @,
            !.work_items = IF @.k = "list" THEN normalized.work_items ELSE @,
            !.business = IF @.k = "dict" /\ @.d # EmptyBusiness
                         THEN DictB(normalized.business) ELSE @]

\* the caller passes the snapshot object of the first run to a run on a
\* second fresh orchestrator
SameObjectRerun ==
    /\ call.op = "run_pipeline"
    /\ result.kind = "returned"
    /\ ~NormalizeRaises(call.input)
    /\ SecondRun("same_object_rerun", SnapshotAfter(call.input))

NextFresh == FirstRun \/ FreshRerun \/ CanonicalRerun \/ SameObjectRerun

SpecFresh == Init /\ [][NextFresh]_vars

----------------------------------------------------------------------------
(* One orchestrator reused for run after run of throughput snapshots *)

\* one entity reporting a throughput, without a business block and with one
\* that supplies the throughput baseline, per minute or per hour
BaselineBusiness == DictB(Business("GENERAL", Absent, Num(75), Num(1000), Absent))

ReuseInputs ==
    {MakeSnapshot(AbsentM, b, Absent, d) :
        b \in {AbsentB, LegacyBusiness, BaselineBusiness}, d \in ThroughputDatas}

\* the next run of the same orchestrator
ReuseRun == \E input \in ReuseInputs : Run(input, Env(FALSE, FALSE, TRUE))

SpecReuse == Init /\ [][ReuseRun]_vars

----------------------------------------------------------------------------
(* The run counters and the status of the agents, call by call *)

\* the number of process calls made on one agent
MaxCalls == 2

\* what the agents are called with: normalized snapshots for the Detector
\* (one of them makes it raise), an exception or none inside the Graph
\* Engine, a business block for the Loss Estimator (one of them makes it raise)
ProcessInputs(a) ==
    CASE a = "detection" ->
            {_normalize_input(MakeSnapshot(AbsentM, AbsentB, Absent, d)) :
                d \in {ScenarioData, BadLoadData}}
      [] a = "knowledge_graph" -> BOOLEAN
      [] OTHER -> {GeneralBusiness, BadCost}

\* a process call enters: _start_processing runs before the try block
StartProcess ==
    /\ call.op # "process_started"
    /\ \E a \in AgentNames :
        /\ agents[a].total_runs < MaxCalls
        /\ \E input_data \in ProcessInputs(a) :
            /\ agents' = [agents EXCEPT ![a] = _start_processing(@)]
            /\ call' = Call("process_started", NoSnapshot, Env(FALSE, FALSE, FALSE),
                            [agent |-> a, before |-> agents[a], input_data |-> input_data])
    /\ UNCHANGED <<mode, industry, baselines, learned, knowledge_graph,
                   historical_losses, issued_actions, in_flight, result>>

\* the call leaves: _complete_processing with the agent's own outcome, at
\* the end of the try block or in the exception handler
Completed(a, status) ==
    /\ agents' = [agents EXCEPT ![a] = _complete_processing(@, status = "success")]
    /\ call' = [call EXCEPT !.op = "process"]
    /\ result' = Result(status, NoOutput, <<>>, <<>>, 0)
    /\ UNCHANGED <<mode, industry, learned, issued_actions, in_flight>>

DetectorCompletes ==
    /\ call.op = "process_started" /\ call.mode_arg.agent = "detection"
    /\ \E r \in {DetectionProcess(call.mode_arg.input_data, baselines)} :
        /\ baselines' = r.baselines
        /\ Completed("detection", r.status)
    /\ UNCHANGED <<knowledge_graph, historical_losses>>

GraphEngineCompletes ==
    /\ call.op = "process_started" /\ call.mode_arg.agent = "knowledge_graph"
    /\ \E r \in {KnowledgeGraphProcess(knowledge_graph, ShiftData, <<>>,
                                       call.mode_arg.input_data)} :
        /\ knowledge_graph' = r.graph
        /\ Completed("knowledge_graph", r.status)
    /\ UNCHANGED <<baselines, historical_losses>>

LossEstimatorCompletes ==
    /\ call.op = "process_started" /\ call.mode_arg.agent = "loss_estimation"
    /\ \E r \in {LossProcess(PlainDetections, call.mode_arg.input_data,
                             historical_losses)} :
        /\ historical_losses' = r.historical_losses
        /\ Completed("loss_estimation", r.status)
    /\ UNCHANGED <<baselines, knowledge_graph>>

NextAgents ==
    StartProcess \/ DetectorCompletes \/ GraphEngineCompletes \/ LossEstimatorCompletes

SpecAgents == Init /\ [][NextAgents]_vars

----------------------------------------------------------------------------
(* The actions a caller holds, over runs, mode changes and approvals *)

\* an approval that puts the action back to PENDING
approve_action_requeue(issued, action_id) ==
    [i \in 1..Len(issued) |->
        IF issued[i].action_id = action_id THEN [issued[i] EXCEPT !.status = "PENDING"]
        ELSE issued[i]]

\* the approve endpoint of api/pipeline.py: it answers that the action is
\* approved and reads or writes no action
approve_action(issued, action_id) == issued

\* one call of the approve endpoint
ApproveAction(action_id) ==
    /\ issued_actions' = approve_action(issued_actions, action_id)
    /\ call' = Call("approve_action", NoSnapshot, Env(FALSE, FALSE, FALSE), action_id)
    /\ result' = Result("approved", NoOutput, <<>>, <<>>, 0)
    /\ UNCHANGED <<mode, industry, baselines, learned, knowledge_graph, historical_losses,
                   agents, in_flight>>

\* the ids of the actions issued so far, and one that was never issued
Approvals == \E action_id \in 1..(Len(issued_actions) + 1) : ApproveAction(action_id)

\* runs of the scenario in every mode, with executions that succeed or fail
LifecycleRuns ==
    \E m \in {ASSIST_S, COPILOT_S, FULL_AUTO_S}, success \in BOOLEAN :
        Run(MakeSnapshot(StrM(m), BpoBusiness, Absent, ScenarioData),
            Env(FALSE, FALSE, success))

LifecycleModes == \E mode_str \in {ASSIST_S, COPILOT_S, FULL_AUTO_S} : SetModeTo(mode_str)

NextLifecycle == LifecycleRuns \/ LifecycleModes \/ Approvals

SpecLifecycle == Init /\ [][NextLifecycle]_vars

----------------------------------------------------------------------------
(* The optimization plan made from lists of detections *)

\* the types the plan has a category for, and two it has none for
PlanTypes ==
    {"OVERLOAD", "UNDERUTILIZATION", "LOAD_IMBALANCE", "SLA_RISK", "SLA_BREACH",
     "EXCESSIVE_HANDOVERS", "BOUNCE", "REWORK", "BOTTLENECK", "IDLE_TIME", "BLOCKED",
     "OFFLINE", "QUEUE_OVERFLOW"}

\* the longest list of detections a plan is made from
MaxDetections == 3

PlanDetections ==
    UNION {[1..n -> {[inefficiency_type |-> t, location_id |-> location] :
                        t \in PlanTypes, location \in {"E1", "E2"}}] :
           n \in 0..MaxDetections}

\* one call of AOIAOrchestrator._generate_optimization_plan
GeneratePlan(detections) ==
    /\ call' = Call("generate_plan", NoSnapshot, Env(FALSE, FALSE, FALSE), <<>>)
    /\ result' = [Result("returned", NoOutput, detections, <<>>, 0)
                    EXCEPT !.value = _generate_optimization_plan(detections)]
    /\ UNCHANGED <<mode, industry, baselines, learned, knowledge_graph,
                   historical_losses, issued_actions, agents, in_flight>>

\* the plan is a function of the list alone: one call per list
NextPlan == call = NoCall /\ \E detections \in PlanDetections : GeneratePlan(detections)

SpecPlan == Init /\ [][NextPlan]_vars

----------------------------------------------------------------------------
(* Dry runs: the call argument and the snapshot's flag, in every mode *)

DryInputs ==
    {MakeSnapshot(StrM(m), BpoBusiness, flag, d) :
        m \in {ASSIST_S, COPILOT_S, FULL_AUTO_S},
        flag \in {Absent, True, False},
        d \in {ScenarioData, DemoData}}

DryRuns ==
    \E input \in DryInputs, dry_run \in BOOLEAN :
        Run(input, Env(dry_run, FALSE, TRUE))

SpecDry == Init /\ [][DryRuns]_vars

----------------------------------------------------------------------------
(* Two callers inside run_pipeline on one orchestrator at the same time *)

\* the snapshots of the concurrent callers: the scenario in each mode
ConcurrentInputs ==
    {MakeSnapshot(StrM(m), BpoBusiness, Absent, ScenarioData) :
        m \in {ASSIST_S, COPILOT_S, FULL_AUTO_S}}

\* the caller's own record of its call
SetRun(c, run) == [in_flight EXCEPT !.runs[c] = run]

\* lines 98 to 109: the caller writes _pipeline_id, _mode and _industry of
\* the shared orchestrator
Enter(c, input) ==
    /\ in_flight.runs[c].pc = "idle"
    /\ mode' = from_string(input.autonomy_mode.s)
    /\ industry' = GetS(input.business.d.industry, "GENERAL")
    /\ in_flight' = [pipeline_id |-> c,
                     runs |-> [in_flight.runs EXCEPT ![c] =
                                  [IdleRun EXCEPT !.pc = "analysis", !.input = input,
                                                  !.dry = DryRun(FALSE, input)]]]
    /\ UNCHANGED <<baselines, learned, knowledge_graph, historical_losses,
                   issued_actions, agents, call, result>>

\* steps 1 to 6 of the try block, on the agents as they are now
Analyse(c) ==
    /\ in_flight.runs[c].pc = "analysis"
    /\ \E a \in {Analysis(Current, in_flight.runs[c].input, FALSE)} :
        /\ baselines' = a.detection_result.baselines
        /\ knowledge_graph' = a.kg_result.graph
        /\ historical_losses' = a.loss_result.historical_losses
        /\ agents' = [agents EXCEPT
                        !["detection"] = ProcessCall(@, a.detection_result.status = "success"),
                        !["knowledge_graph"] = ProcessCall(@, a.kg_result.status = "success"),
                        !["loss_estimation"] = ProcessCall(@, a.loss_result.status = "success")]
        /\ in_flight' = SetRun(c, [in_flight.runs[c] EXCEPT
                                      !.pc = "execution",
                                      !.detections = a.detection_result.detections,
                                      !.plan = a.optimization_plan])
    /\ UNCHANGED <<mode, industry, learned, issued_actions, call, result>>

\* step 7: mode_config = ModeConfig.get_config(self._mode) reads the mode
\* that the orchestrator holds now; success is what execute draws
Execute(c, success) ==
    /\ in_flight.runs[c].pc = "execution"
    /\ \E step \in {ExecutionStep(in_flight.runs[c].plan, mode, in_flight.runs[c].dry,
                                  success)} :
        in_flight' = SetRun(c, [in_flight.runs[c] EXCEPT
                                   !.pc = "output",
                                   !.actions = step.actions_executed,
                                   !.exec_calls = step.exec_calls])
    /\ UNCHANGED <<mode, industry, baselines, learned, knowledge_graph,
                   historical_losses, issued_actions, agents, call, result>>

\* step 8 and the output, built from self._pipeline_id, self._mode.value and
\* self._industry as they are now
Return(c) ==
    /\ in_flight.runs[c].pc = "output"
    /\ learned' = learned + 1
    /\ issued_actions' = Issue(issued_actions, in_flight.runs[c].actions)
    /\ in_flight' = SetRun(c, [in_flight.runs[c] EXCEPT !.pc = "done"])
    /\ call' = Call("run_concurrent", in_flight.runs[c].input, Env(FALSE, FALSE, TRUE), c)
    /\ result' = [Result("returned",
                         [NoOutput EXCEPT
                             !.status = "completed",
                             !.optimization_plan = in_flight.runs[c].plan,
                             !.actions_executed = in_flight.runs[c].actions,
                             !.autonomy_mode = mode,
                             !.industry = industry],
                         in_flight.runs[c].detections, <<>>,
                         in_flight.runs[c].exec_calls)
                    EXCEPT !.value = in_flight.pipeline_id]
    /\ UNCHANGED <<mode, industry, baselines, knowledge_graph, historical_losses, agents>>

NextConcurrent ==
    \/ \E c \in Callers, input \in ConcurrentInputs : Enter(c, input)
    \/ \E c \in Callers : Analyse(c)
    \/ \E c \in Callers, success \in BOOLEAN : Execute(c, success)
    \/ \E c \in Callers : Return(c)

SpecConcurrent == Init /\ [][NextConcurrent]_vars

----------------------------------------------------------------------------
(* The dependency chain walked on the graphs the agent builds *)

\* a path of six tasks, a second edge out of A, and two edges back to A
ChainDatas ==
    {SequenceData("A", <<"A", "B", "C", "D", "E", "F">>),
     SequenceData("A", <<"A", "C">>),
     SequenceData("C", <<"C", "A">>),
     SequenceData("B", <<"B", "A">>)}

\* the start ids of the walks; Z is no stored node
ChainSeeds == {"A", "B", "C", "Z"}

\* one call of KnowledgeGraphAgent._build_dependency_chain(start_node)
DependencyChain(start_node) ==
    /\ call' = Call("dependency_chain", NoSnapshot, Env(FALSE, FALSE, FALSE), start_node)
    /\ result' = [Result("returned", NoOutput, <<>>, <<>>, 0)
                    EXCEPT !.value = _build_dependency_chain(knowledge_graph, start_node)]
    /\ UNCHANGED <<mode, industry, baselines, learned, knowledge_graph,
                   historical_losses, issued_actions, agents, in_flight>>

NextChain ==
    \/ \E input_data \in ChainDatas : GraphProcess(input_data, <<>>)
    \/ ClearGraph
    \/ \E start_node \in ChainSeeds : DependencyChain(start_node)

SpecChain == Init /\ [][NextChain]_vars

----------------------------------------------------------------------------
(* Properties of the runs *)

\* the last operation was a run_pipeline call that returned an output
Returned == call.op = "run_pipeline" /\ result.kind = "returned"

\* the run got as far as the analysis stages and its output says so
Analysed ==
    /\ result.output.optimization_plan.present
    /\ Len(result.output.root_causes) = Len(result.detections)
    /\ Len(result.output.inefficiencies) = Len(result.detections)
    /\ {"detection", "knowledge_graph", "root_causes", "loss_estimation", "plan", "learn"}
           \subseteq Range(result.stages)

\* C1: a run whose effective mode is ASSIST calls OptimizerAgent.execute no
\* time and returns no action, staged or executed, while its output still
\* carries the detections, one root cause per detection and the plan, and the
\* financial loss unless the Loss Estimator failed
C1_AssistNeverActs ==
    (call.op = "run_pipeline" /\ mode = "ASSIST") =>
        /\ result.exec_calls = 0
        /\ Returned =>
            /\ result.output.autonomy_mode = "ASSIST"
            /\ result.output.actions_executed = <<>>
            /\ "execution" \notin Range(result.stages)
            /\ result.output.status # "failed" => Analysed
            /\ result.output.status = "completed" => result.output.financial_loss.present

\* an ASSIST run over the scenario: detections, a plan with work to do, a loss
C1_Witness ==
    /\ Returned
    /\ result.output.autonomy_mode = "ASSIST"
    /\ result.output.status = "completed"
    /\ Len(result.output.inefficiencies) >= 2
    /\ result.output.optimization_plan.load_rebalancing # NoSlot
    /\ result.output.financial_loss.total_loss > 0
    /\ result.output.actions_executed = <<>>

\* C2: every action a COPILOT run returns is PENDING and requires approval,
\* and the run calls OptimizerAgent.execute no time
C2_CopilotStagesOnly ==
    (call.op = "run_pipeline" /\ mode = "COPILOT") =>
        /\ result.exec_calls = 0
        /\ Returned =>
            /\ result.output.autonomy_mode = "COPILOT"
            /\ \A a \in Range(result.output.actions_executed) :
                    a.status = "PENDING" /\ a.requires_approval

\* a COPILOT run that staged the rebalancing and the prioritization
C2_Witness ==
    /\ Returned
    /\ result.output.autonomy_mode = "COPILOT"
    /\ Len(result.output.actions_executed) = 2
    /\ result.output.actions_executed[1].status = "PENDING"

\* C3: every action a FULL_AUTO run returns is COMPLETED or FAILED
C3_FullAutoFinishes ==
    (Returned /\ result.output.autonomy_mode = "FULL_AUTO") =>
        \A a \in Range(result.output.actions_executed) :
            a.status \in {"COMPLETED", "FAILED"}

\* a FULL_AUTO run that called execute and returned several actions
C3_Witness ==
    /\ Returned
    /\ result.output.autonomy_mode = "FULL_AUTO"
    /\ result.exec_calls = 1
    /\ Len(result.output.actions_executed) >= 3
    /\ \E a \in Range(result.output.actions_executed) : a.status = "COMPLETED"

\* letters that differ in case only
FoldCase(c) ==
    CASE c = "A" -> "a" [] c = "S" -> "s" [] c = "I" -> "i" [] c = "T" -> "t"
      [] c = "C" -> "c" [] c = "O" -> "o" [] c = "P" -> "p" [] c = "L" -> "l"
      [] c = "F" -> "f" [] c = "U" -> "u" [] c = "X" -> "x" [] OTHER -> c

\* chars spells name, whatever the case, between leading and trailing whitespace
Spells(chars, name) ==
    \E i \in 0..Len(chars) :
        /\ i + Len(name) <= Len(chars)
        /\ \A k \in 1..i : IsSpace(chars[k])
        /\ \A k \in 1..Len(name) : FoldCase(chars[i + k]) = FoldCase(name[k])
        /\ \A k \in (i + Len(name) + 1)..Len(chars) : IsSpace(chars[k])

\* the mode a string stands for: an unrecognized string stands for FULL_AUTO
ModeOf(chars) ==
    IF Spells(chars, ASSIST_S) THEN "ASSIST"
    ELSE IF Spells(chars, COPILOT_S) THEN "COPILOT"
    ELSE "FULL_AUTO"

\* C4: the mode is FULL_AUTO at construction; set_mode makes the mode its
\* string stands for the sticky mode; a run executes under and reports the
\* mode its autonomy_mode string stands for, or the sticky mode when the
\* snapshot has no autonomy_mode, and leaves that mode as the sticky mode
C4_ModeResolution ==
    /\ mode = "FULL_AUTO"
    /\ [][/\ call'.op = "set_mode" => mode' = ModeOf(call'.mode_arg)
          /\ (call'.op = "run_pipeline" /\ result'.kind = "returned") =>
                LET field == call'.input.autonomy_mode
                    expected == IF field.k = "absent" THEN mode ELSE ModeOf(field.s)
                IN  /\ result'.output.autonomy_mode = expected
                    /\ mode' = expected
                    /\ ("execution" \in Range(result'.stages)) = (expected # "ASSIST")
                    /\ \A a \in Range(result'.output.actions_executed) :
                          a.requires_approval = (expected = "COPILOT")]_vars

\* a run without autonomy_mode that ran under a sticky mode other than the
\* one of construction, and staged actions under it
C4_Witness ==
    /\ Returned
    /\ call.input.autonomy_mode.k = "absent"
    /\ result.output.autonomy_mode = "COPILOT"
    /\ mode = "COPILOT"
    /\ result.output.actions_executed # <<>>

\* the detector, the Knowledge Graph agent, the Loss Estimator fail inside
DetectorFails(input) ==
    \E e \in Range(input.entities.l) : e.load_percent.k = "str"
LossFails(input, detections) ==
    input.business.k = "dict" /\ input.business.d.cost_per_min.k = "str"
        /\ detections # <<>>

\* C5: in a run that gets past normalization, a failure inside the Detector,
\* the Knowledge Graph agent or the Loss Estimator is listed in errors, the
\* later stages still run (root causes, loss, plan, execution when the mode
\* executes, learning) and the status is completed_with_errors; the status
\* is completed exactly when errors is empty
C5_StageFailuresAreCollected ==
    Returned =>
        /\ (result.output.status = "completed") = (result.output.errors = <<>>)
        /\ result.output.status # "failed" =>
            /\ DetectorFails(call.input) = ("Detection" \in Range(result.output.errors))
            /\ call.env.kg_fault = ("KnowledgeGraph" \in Range(result.output.errors))
            /\ LossFails(call.input, result.detections)
                  = ("LossEstimation" \in Range(result.output.errors))
            /\ result.output.errors # <<>> =>
                /\ result.output.status = "completed_with_errors"
                /\ Analysed
                /\ result.output.updated_baselines
                /\ ("execution" \in Range(result.stages))
                      = (result.output.autonomy_mode # "ASSIST" /\ ~call.env.dry_run
                            /\ ~Truthy(Get(call.input.dry_run, Null)))

\* a FULL_AUTO run whose Loss Estimator failed and which went on to execute
C5_Witness ==
    /\ Returned
    /\ result.output.status = "completed_with_errors"
    /\ "LossEstimation" \in Range(result.output.errors)
    /\ ~result.output.financial_loss.present
    /\ result.output.optimization_plan.present
    /\ result.output.actions_executed # <<>>

\* C6: every run_pipeline call returns an output, whose status is completed,
\* completed_with_errors or failed; a failed output has an empty payload and
\* the error message in errors
C6_NeverRaises ==
    call.op = "run_pipeline" =>
        /\ result.kind = "returned"
        /\ result.output.status \in {"completed", "completed_with_errors", "failed"}
        /\ result.output.status = "failed" =>
            /\ result.output.inefficiencies = <<>>
            /\ result.output.root_causes = <<>>
            /\ result.output.actions_executed = <<>>
            /\ ~result.output.financial_loss.present
            /\ ~result.output.optimization_plan.present
            /\ ~result.output.updated_baselines
            /\ result.output.errors # <<>>

\* the action refers to a reassignment: by its type or by the plan slot it carries
ReferencesReassignment(a) ==
    \/ a.action_type \in {"REASSIGN", "REASSIGN_TICKET", "REBALANCE_LOAD"}
    \/ a.parameters.action \in {"REASSIGN", "REBALANCE_LOAD"}

\* the run was given the end-to-end scenario under FULL_AUTO
ScenarioRun ==
    /\ call.op = "run_pipeline"
    /\ call.input = MakeSnapshot(StrM(FULL_AUTO_S), BpoBusiness, Absent, ScenarioData)
    /\ ~call.env.dry_run
    /\ ~call.env.kg_fault

\* C7: the scenario run returns an OVERLOAD and an SLA_BREACH detection, a
\* financial loss with total_loss > 0 and a COMPLETED action that refers to
\* a reassignment
C7_ScenarioOutcome ==
    ScenarioRun =>
        /\ result.kind = "returned"
        /\ \E d \in Range(result.output.inefficiencies) : d.inefficiency_type = "OVERLOAD"
        /\ \E d \in Range(result.output.inefficiencies) : d.inefficiency_type = "SLA_BREACH"
        /\ result.output.financial_loss.present
        /\ result.output.financial_loss.total_loss > 0
        /\ \E a \in Range(result.output.actions_executed) :
                a.status = "COMPLETED" /\ ReferencesReassignment(a)

\* the level the cutoffs give a severity n / d, d > 0: low below 0.3, medium
\* below 0.6, high below 0.85, critical otherwise
CutoffLevel(sev) ==
    IF 10 * sev.n < 3 * sev.d THEN "low"
    ELSE IF 10 * sev.n < 6 * sev.d THEN "medium"
    ELSE IF 100 * sev.n < 85 * sev.d THEN "high"
    ELSE "critical"

\* C8: every detection of the Detector has a severity_score in [0, 1] and
\* the severity_level the cutoffs give it, and the output lists every
\* detection with the same severity_level
C8_SeverityAndLevel ==
    Returned =>
        /\ Len(result.output.inefficiencies) = Len(result.detections)
        /\ \A i \in 1..Len(result.detections) :
            LET d == result.detections[i]
            IN  /\ d.severity_score.d > 0
                /\ 0 <= d.severity_score.n
                /\ d.severity_score.n <= d.severity_score.d
                /\ d.severity_level = CutoffLevel(d.severity_score)
                /\ result.output.inefficiencies[i].severity_level = d.severity_level
                /\ result.output.inefficiencies[i].severity_score = d.severity_score

\* an entity at load 120: the raw severity (120 - 80) / 20 = 2 was clamped
C8_Witness ==
    /\ Returned
    /\ \E e \in Range(call.input.entities.l) : e.load_percent = Num(120)
    /\ \E d \in Range(result.detections) :
            /\ d.inefficiency_type = "OVERLOAD"
            /\ d.severity_score = One
            /\ d.severity_level = "critical"
    /\ \E d \in Range(result.output.inefficiencies) :
            d.inefficiency_type = "IDLE_TIME" /\ d.severity_level = "medium"

\* the number of detections of a type at a location
CountOf(detections, type, location) ==
    Cardinality({i \in 1..Len(detections) :
                    /\ detections[i].inefficiency_type = type
                    /\ detections[i].location_id = location})

\* the work item states a remaining time and a target the percentage is defined for
HasSla(w) ==
    IsNum(w.sla_remaining_minutes) /\ IsNum(w.sla_target_minutes)
        /\ w.sla_target_minutes.v # 0

\* remaining / target * 100 <= bound, for a target other than 0
PctAtMost(w, bound) ==
    LET r == w.sla_remaining_minutes.v
        t == w.sla_target_minutes.v
    IN  r * 100 * t <= bound * t * t

ReportedLoad(e) ==
    IF IsNum(e.load_percent) THEN e.load_percent.v
    ELSE IF IsNum(e.operator_load) THEN e.operator_load.v
    ELSE 0

\* the id an entity or a legacy shift goes by
ReportedId(e) == IF e.entity_id # AbsentS THEN e.entity_id ELSE e.operator_id

LossEstimated ==
    /\ Returned
    /\ Analysed
    /\ result.output.financial_loss.present

\* the loss, in hundredths, the formula gives a detection: |deviation| / 100
\* x duration x cost_per_minute x industry multiplier x weight of its type
FormulaLoss(d, cost_per_minute, ind) ==
    RoundHalfEven(Abs(d.deviation_percent.n) * DictGet(d, "duration_minutes", 30)
                      * cost_per_minute * industry_multipliers(ind)
                      * anomaly_weights(d.inefficiency_type),
                  d.deviation_percent.d * 100)

\* C11: the loss of every detection the Loss Estimator consumed equals
\* |deviation_percent| / 100 x duration_minutes x cost_per_minute x the
\* multiplier of the business industry x the weight of the detection's
\* inefficiency type (1.0 for a type that is not in the table)
C11_PerDetectionLoss ==
    LossEstimated =>
        /\ Len(result.individual_losses) = Len(result.detections)
        /\ \A i \in 1..Len(result.detections) :
            result.individual_losses[i] =
                FormulaLoss(result.detections[i], result.cost_per_min,
                            result.output.industry)

\* round(x, 2) of a non-negative fraction of hundredths
Cents(x) == RoundHalfEven(x.n, x.d)

\* C17: the projected_24h_loss of the output is money_per_minute x 60 x 24,
\* money_per_minute being the total loss over the summed durations of the
\* detections (30 minutes each when none is given)
C17_Projected24h ==
    (LossEstimated /\ result.detections # <<>>) =>
        Cents(result.output.financial_loss.projected_24h_loss)
            = Cents(F(result.output.financial_loss.total_loss * 60 * 24,
                      _estimate_total_duration(result.detections)))

\* the summed loss of the detections that have value v under the key
SumWhere(key, v) ==
    LET idx == {i \in 1..Len(result.detections) : result.detections[i][key] = v}
        Sum[S \in SUBSET idx] ==
            IF S = {} THEN 0
            ELSE LET i == CHOOSE j \in S : TRUE
                 IN  result.individual_losses[i] + Sum[S \ {i}]
    IN  Sum[idx]

\* the sum of the values of a dict
SumValues(d) ==
    LET Sum[S \in SUBSET DOMAIN d] ==
            IF S = {} THEN 0
            ELSE LET k == CHOOSE j \in S : TRUE IN d[k] + Sum[S \ {k}]
    IN  Sum[DOMAIN d]

\* C18: by_type has one entry per inefficiency type among the detections
\* and by_location one per detection location, each the summed loss of the
\* detections of that type or location, and the values of each add up to
\* total_loss
C18_LossByTypeAndLocation ==
    LossEstimated =>
        LET loss == result.output.financial_loss
            types == {result.detections[i].inefficiency_type :
                        i \in 1..Len(result.detections)}
            locations == {result.detections[i].location_id :
                            i \in 1..Len(result.detections)}
        IN  /\ DOMAIN loss.by_type = types
            /\ DOMAIN loss.by_location = locations
            /\ \A t \in types : loss.by_type[t] = SumWhere("inefficiency_type", t)
            /\ \A l \in locations : loss.by_location[l] = SumWhere("location_id", l)
            /\ SumValues(loss.by_type) = loss.total_loss
            /\ SumValues(loss.by_location) = loss.total_loss

\* the sum of a list of amounts
RECURSIVE SumSeq(_)
SumSeq(seq) == IF seq = <<>> THEN 0 ELSE Head(seq) + SumSeq(Tail(seq))

\* the last operation was a call of the Loss Estimator on its own
LossCalled == call.op = "loss_process"

\* C15: the historical-loss buffer never holds more than 100 entries; a
\* successful Loss Estimator run appends its total, evicting the oldest
\* entry when the buffer was full, and a failing run leaves it as it was
C15_HistoryBounded ==
    /\ Len(historical_losses) <= 100
    /\ LossCalled =>
        LET before == result.value
            total == SumSeq(result.individual_losses)
        IN  IF result.kind = "success"
            THEN historical_losses =
                    (IF Len(before) < 100 THEN before ELSE Tail(before)) \o <<total>>
            ELSE historical_losses = before

\* a successful run on a full buffer evicted the total of the marked run,
\* which was the oldest entry
C15_Witness ==
    /\ LossCalled
    /\ result.kind = "success"
    /\ Len(result.value) = 100
    /\ result.value[1] = TotalOf(MarkedDetections)
    /\ result.value[2] # TotalOf(MarkedDetections)
    /\ historical_losses = Tail(result.value) \o <<TotalOf(PlainDetections)>>

\* the nodes one undirected step or less away from the nodes of S
Neighbours(S) ==
    S \cup {e[2] : e \in {x \in DOMAIN knowledge_graph.edges : x[1] \in S}}
      \cup {e[1] : e \in {x \in DOMAIN knowledge_graph.edges : x[2] \in S}}

\* the nodes at undirected distance at most k from the nodes of S
RECURSIVE Ball(_, _)
Ball(S, k) == IF k < 0 THEN {} ELSE IF k = 0 THEN S ELSE Ball(Neighbours(S), k - 1)

\* the last operation was a traversal
Traversed == call.op = "connected_nodes"

\* C12: the traversal returns exactly the nodes whose undirected distance
\* from the seed is at most max_depth, each once and with that distance as
\* its depth, on every graph the store can hold, cyclic ones included
C12_TraversalWithinDepth ==
    Traversed =>
        LET start_node == call.mode_arg[1]
            max_depth == call.mode_arg[2]
            visited == result.value
        IN  /\ {visited[i][1] : i \in 1..Len(visited)} = Ball({start_node}, max_depth)
            /\ \A i, j \in 1..Len(visited) : visited[i][1] = visited[j][1] => i = j
            /\ \A i \in 1..Len(visited) :
                /\ visited[i][1] \in Ball({start_node}, visited[i][2])
                /\ visited[i][1] \notin Ball({start_node}, visited[i][2] - 1)

\* on the chain A -> B -> C -> D the traversal from A with max_depth 2
\* returned A, B and C and not D
C12_Witness ==
    /\ Traversed
    /\ call.mode_arg = <<"A", 2>>
    /\ DOMAIN knowledge_graph.edges = {<<"A", "B">>, <<"B", "C">>, <<"C", "D">>}
    /\ {result.value[i][1] : i \in 1..Len(result.value)} = {"A", "B", "C"}

\* C14: no call other than clear_graph removes a node id or an edge key
\* from the store: after every Graph Engine process call and every pipeline
\* run the store holds the ids and keys it held before
C14_GraphOnlyGrows ==
    [][call'.op # "clear_graph" =>
         /\ DOMAIN knowledge_graph.nodes \subseteq DOMAIN knowledge_graph'.nodes
         /\ DOMAIN knowledge_graph.edges \subseteq DOMAIN knowledge_graph'.edges]_vars

\* a process call that named machine M1 again updated its metadata and kept
\* the nodes and edges of the earlier calls
C14_Witness ==
    /\ call.op = "kg_process"
    /\ call.mode_arg = MachineData("down")
    /\ knowledge_graph.nodes["M1"].metadata = "down"
    /\ "OP1" \in DOMAIN knowledge_graph.nodes
    /\ <<"OP1", "D">> \in DOMAIN knowledge_graph.edges
    /\ <<"C", "D">> \in DOMAIN knowledge_graph.edges

\* the ids of the entities and work items of the snapshot of the last run
SnapshotIds ==
    LET normalized == _normalize_input(call.input)
    IN  {EntityId(e) : e \in Range(normalized.entities.l)}
            \cup {ItemId(w) : w \in Range(normalized.work_items.l)}

\* C16: after a pipeline run the node store holds the ids of the entities
\* and work items of the run's snapshot, and the items reported as impacted
\* in the root causes include the stored locations of the detections
C16_SnapshotIngested ==
    (Returned /\ Analysed /\ ~call.env.kg_fault) =>
        /\ SnapshotIds \subseteq DOMAIN knowledge_graph.nodes
        /\ \A i \in 1..Len(result.output.root_causes) :
            LET impacted == result.output.root_causes[i].impacted_entities
                                \cup result.output.root_causes[i].impacted_work_items
            IN  \A j \in 1..Len(result.detections) :
                    result.detections[j].location_id \in DOMAIN knowledge_graph.nodes
                        => result.detections[j].location_id \in impacted

C19_LegacyEqualsCanonical ==
    call.op = "canonical_rerun" =>
        /\ Signature(result.detections) = call.mode_arg.signature
        /\ result.output.financial_loss.total_loss = call.mode_arg.total_loss

\* C20: no step moves an issued action backwards: every action issued so
\* far is still held afterwards, none becomes PENDING from another status,
\* and a COMPLETED or FAILED action keeps its status
C20_NoBackwardStatus ==
    [][/\ Len(issued_actions') >= Len(issued_actions)
       /\ \A i \in 1..Len(issued_actions) :
            /\ issued_actions'[i].action_id = issued_actions[i].action_id
            /\ issued_actions'[i].status = "PENDING"
                => issued_actions[i].status = "PENDING"
            /\ issued_actions[i].status \in {"COMPLETED", "FAILED"}
                => issued_actions'[i].status = issued_actions[i].status]_vars

\* the approve endpoint was called on a COMPLETED action, while PENDING and
\* FAILED actions of other runs are held too
C20_Witness ==
    /\ call.op = "approve_action"
    /\ call.mode_arg \in 1..Len(issued_actions)
    /\ issued_actions[call.mode_arg].status = "COMPLETED"
    /\ \E i, j \in 1..Len(issued_actions) :
        /\ issued_actions[i].status = "PENDING"
        /\ issued_actions[j].status = "FAILED"

\* the slot is filled with its one action exactly when a detection of one of
\* the types is in the list
SlotIff(slot, action, types, detections) ==
    LET present == \E i \in 1..Len(detections) : detections[i].inefficiency_type \in types
    IN  /\ (slot # NoSlot) <=> present
        /\ present => slot.action = action /\ slot.targets # <<>>

\* C21: each slot of the plan is non-null exactly when a detection of its
\* category is in the list, and then holds the one action of its category,
\* however many detections fall in the category
C21_PlanSlots ==
    call.op = "generate_plan" =>
        LET plan == result.value
            detections == result.detections
        IN  /\ SlotIff(plan.load_rebalancing, "REBALANCE_LOAD",
                       {"OVERLOAD", "UNDERUTILIZATION", "LOAD_IMBALANCE"}, detections)
            /\ SlotIff(plan.priority_changes, "PRIORITIZE",
                       {"SLA_RISK", "SLA_BREACH"}, detections)
            /\ SlotIff(plan.alerts_to_send, "ALERT_SUPERVISOR",
                       {"SLA_RISK", "SLA_BREACH"}, detections)
            /\ SlotIff(plan.process_optimizations, "REROUTE",
                       {"EXCESSIVE_HANDOVERS", "BOUNCE", "REWORK"}, detections)
            /\ SlotIff(plan.capacity_adjustments, "ADD_CAPACITY", {"BOTTLENECK"}, detections)
            /\ SlotIff(plan.reassignments, "REASSIGN", {"IDLE_TIME", "BLOCKED"}, detections)

\* two capacity detections and an SLA breach: one rebalancing action with
\* both targets, the priority and alert slots filled, the others null
C21_Witness ==
    /\ call.op = "generate_plan"
    /\ Len(result.detections) = 3
    /\ result.detections[1].inefficiency_type = "OVERLOAD"
    /\ result.detections[2].inefficiency_type = "SLA_BREACH"
    /\ result.detections[3].inefficiency_type = "UNDERUTILIZATION"
    /\ Len(result.value.load_rebalancing.targets) = 2
    /\ result.value.priority_changes # NoSlot
    /\ result.value.alerts_to_send # NoSlot
    /\ result.value.reassignments = NoSlot
    /\ result.value.capacity_adjustments = NoSlot
    /\ result.value.process_optimizations = NoSlot

\* the non-null slots of a plan
PlanSlots(plan) ==
    {slot \in {plan.load_rebalancing, plan.reassignments, plan.priority_changes,
               plan.capacity_adjustments, plan.process_optimizations,
               plan.alerts_to_send} : slot # NoSlot}

\* the run reached the execution step: its mode allows execution and dry_run
\* is off
Executing ==
    /\ Returned
    /\ Analysed
    /\ result.output.autonomy_mode \in {"COPILOT", "FULL_AUTO"}
    /\ "execution" \in Range(result.stages)

\* C22: the actions of a run that reached the execution step correspond one
\* to one to the non-null slots of its plan: one action per slot, of the
\* slot's action type and targets, PENDING under COPILOT and executed under
\* FULL_AUTO
C22_ActionsMatchSlots ==
    Executing =>
        LET actions == result.output.actions_executed
            slots == PlanSlots(result.output.optimization_plan)
        IN  /\ Len(actions) = Cardinality(slots)
            /\ {Slot(actions[i].action_type, actions[i].target_id) :
                    i \in 1..Len(actions)} = slots
            /\ \A i \in 1..Len(actions) :
                IF result.output.autonomy_mode = "COPILOT"
                THEN actions[i].status = "PENDING"
                ELSE actions[i].status \in {"COMPLETED", "FAILED"}

\* C26: the REBALANCE_LOAD action of a FULL_AUTO run that called
\* OptimizerAgent.execute is COMPLETED exactly when the call reported
\* success and FAILED exactly when it reported failure
C26_RebalanceStatusFollowsExecute ==
    (Returned /\ result.output.autonomy_mode = "FULL_AUTO" /\ result.exec_calls = 1) =>
        \A a \in Range(result.output.actions_executed) :
            a.action_type = "REBALANCE_LOAD" =>
                /\ (a.status = "COMPLETED") <=> call.env.success
                /\ (a.status = "FAILED") <=> ~call.env.success

\* the parts of an output a dry run has in common with a normal run
Analysis_of(output) ==
    <<output.status, output.inefficiencies, output.root_causes, output.financial_loss,
      output.optimization_plan>>

\* C27: a run with dry_run set, as the call argument or as the snapshot's
\* flag, returns no action and calls OptimizerAgent.execute no time in any
\* mode, and returns the detections, root causes, financial loss and plan
\* that the same run without dry_run returns
C27_DryRunActsNot ==
    [][(/\ call'.op = "run_pipeline"
        /\ result'.kind = "returned"
        /\ (call'.env.dry_run \/ Truthy(call'.input.dry_run))) =>
          LET normal == run_pipeline(Current, [call'.input EXCEPT !.dry_run = Absent],
                                     FALSE, call'.env.kg_fault, call'.env.success).result
          IN  /\ result'.output.actions_executed = <<>>
              /\ result'.exec_calls = 0
              /\ issued_actions' = issued_actions
              /\ Analysis_of(result'.output) = Analysis_of(normal.output)
              /\ result'.detections = normal.detections]_vars

\* a COPILOT run made dry by the snapshot's flag alone: a plan with work to
\* do and no action staged
C27_Witness ==
    /\ Returned
    /\ ~call.env.dry_run
    /\ call.input.dry_run = True
    /\ result.output.autonomy_mode = "COPILOT"
    /\ result.output.optimization_plan.load_rebalancing # NoSlot
    /\ Len(result.output.inefficiencies) >= 2
    /\ result.output.financial_loss.total_loss > 0
    /\ result.output.actions_executed = <<>>

\* C23: a run that interleaved with another on the same orchestrator
\* reports the mode of its own snapshot and its own pipeline id, returns
\* actions that ask for approval exactly under its own COPILOT mode, and
\* under its own ASSIST mode returns no action and calls execute no time
C23_InterleavedRunsKeepTheirMode ==
    call.op = "run_concurrent" =>
        LET own == from_string(call.input.autonomy_mode.s)
        IN  /\ result.output.autonomy_mode = own
            /\ result.value = call.mode_arg
            /\ own = "ASSIST" =>
                /\ result.output.actions_executed = <<>>
                /\ result.exec_calls = 0
            /\ \A a \in Range(result.output.actions_executed) :
                a.requires_approval = (own = "COPILOT")

\* the positions in the stored order of the edges that leave node_id for a
\* node outside ids
OutEdges(node_id, ids) ==
    {k \in 1..Len(knowledge_graph.edge_keys) :
        /\ knowledge_graph.edge_keys[k][1] = node_id
        /\ knowledge_graph.edge_keys[k][2] \notin ids}

\* C24: the dependency chain from any start id, on cyclic graphs and for an
\* id that is not stored, has at most 5 entries and no id twice, begins with
\* the start id, and each next entry is the target of the first stored edge
\* leaving the previous entry for an id not yet in the chain; the walk goes
\* on while there is such an edge and the chain has fewer than 5 entries
C24_DependencyChain ==
    call.op = "dependency_chain" =>
        LET chain == result.value
            ids(n) == {chain[i].node_id : i \in 1..n}
        IN  /\ Len(chain) >= 1
            /\ Len(chain) <= 5
            /\ chain[1].node_id = call.mode_arg
            /\ \A i, j \in 1..Len(chain) : chain[i].node_id = chain[j].node_id => i = j
            /\ \A i \in 1..(Len(chain) - 1) :
                LET out == OutEdges(chain[i].node_id, ids(i))
                IN  /\ out # {}
                    /\ \E k \in out :
                        /\ \A l \in out : k <= l
                        /\ chain[i + 1].node_id = knowledge_graph.edge_keys[k][2]
            /\ Len(chain) < 5 => OutEdges(chain[Len(chain)].node_id, ids(Len(chain))) = {}

\* a walk from A on a graph where A has two outgoing edges, A -> C stored
\* before A -> B, and C leads back to A: the walk took C first, went on along
\* the path and was cut at five entries
C24_Witness ==
    /\ call.op = "dependency_chain"
    /\ call.mode_arg = "A"
    /\ <<"C", "A">> \in DOMAIN knowledge_graph.edges
    /\ Len(result.value) = 5
    /\ result.value[2].node_id = "C"
    /\ result.value[3].node_id = "D"

\* the loads of the entities of the last run that state a load, as a number,
\* under load_percent or operator_load
StatedLoads ==
    LET entities == _normalize_input(call.input).entities.l
    IN  [i \in {k \in 1..Len(entities) :
                    IsNum(entities[k].load_percent) \/ IsNum(entities[k].operator_load)}
            |-> ReportedLoad(entities[i])]

\* the difference between the largest and the smallest of the stated loads
LoadSpread ==
    CHOOSE v \in {StatedLoads[i] - StatedLoads[j] : i, j \in DOMAIN StatedLoads} :
        \A i, j \in DOMAIN StatedLoads : StatedLoads[i] - StatedLoads[j] <= v

\* C25: a Detector run emits exactly one LOAD_IMBALANCE detection, located at
\* all_entities and of severity min(spread / 50, 1), when at least two
\* entities report a load and the largest and smallest reported loads differ
\* by 20 or more, and no LOAD_IMBALANCE detection otherwise
C25_LoadImbalance ==
    (Returned /\ "Detection" \notin Range(result.output.errors)) =>
        LET found == {i \in 1..Len(result.detections) :
                        result.detections[i].inefficiency_type = "LOAD_IMBALANCE"}
        IN  IF Cardinality(DOMAIN StatedLoads) >= 2 /\ LoadSpread >= 20
            THEN /\ Cardinality(found) = 1
                 /\ \A i \in found :
                      /\ result.detections[i].location_id = "all_entities"
                      /\ result.detections[i].severity_score = FMin(F(LoadSpread, 50), One)
            ELSE found = {}

\* C28: a run leaves the caller's snapshot as it was: its entities and
\* work_items lists and its business mapping hold the values they held
\* before the call, and the same object given to a second run yields the
\* same detections
C28_SnapshotUnchanged ==
    call.op = "same_object_rerun" =>
        /\ SnapshotAfter(call.input).entities = call.input.entities
        /\ SnapshotAfter(call.input).work_items = call.input.work_items
        /\ SnapshotAfter(call.input).business = call.input.business
        /\ Signature(result.detections) = call.mode_arg.signature

\* C29: on a reused orchestrator the detections of a run depend only on the
\* run's snapshot: their types, locations and severities are those a freshly
\* constructed orchestrator yields for the same snapshot
C29_DetectionsOfSnapshotOnly ==
    [][(call'.op = "run_pipeline" /\ result'.kind = "returned") =>
          Signature(result'.detections)
            = Signature(run_pipeline(NewOrchestrator, call'.input,
                                     FALSE, FALSE, TRUE).result.detections)]_vars

\* a process call of agent a has entered and not yet left
InProgress(a) == call.op = "process_started" /\ call.mode_arg.agent = a

\* C30: for the Detector, the Graph Engine and the Loss Estimator, after any
\* sequence of process calls, successful or failing, total_runs is the sum of
\* successful_runs and failed_runs and the status is idle whenever no call of
\* the agent is in progress, and a call that has left raised total_runs by
\* exactly one
C30_AgentCounters ==
    \A a \in AgentNames :
        /\ ~InProgress(a) =>
              /\ agents[a].status = "idle"
              /\ agents[a].total_runs
                   = agents[a].successful_runs + agents[a].failed_runs
        /\ (call.op = "process" /\ call.mode_arg.agent = a) =>
              agents[a].total_runs = call.mode_arg.before.total_runs + 1

\* every agent has completed one successful and one failing call
C30_Witness ==
    /\ call.op = "process"
    /\ \A a \in AgentNames :
          agents[a].successful_runs = 1 /\ agents[a].failed_runs = 1

====
